---- MODULE Spec2Model ----
(***************************************************************************)
(* Model of the LLM-driven coordinator ("common agent"): POST /task in     *)
(* its batch and streaming shapes (routes.py), the LLM analysis and the    *)
(* plan executors, the fallback paths and the agent calls                  *)
(* (common_agent_llm_driven.py), and the decision parser (json_parser.py). *)
(*                                                                         *)
(* Python values are modelled as follows.                                  *)
(*  - a dict is a TLA+ record holding exactly the keys that are present;   *)
(*    `k in d` is  k \in DOMAIN d  and d.get(k, dflt) is Get(d, k, dflt)   *)
(*  - a str is [type |-> "str", toks |-> <<...>>], its text cut in tokens, *)
(*    so that `":" in s`, s.split(":", 1) and `"UI" in s` are computed     *)
(*  - a list that stands where the plan schema wants a str is              *)
(*    [type |-> "list", toks |-> <<...>>] (unhashable in Python)           *)
(*  - a decoded JSON document is [type |-> "dict", val |-> record] or a    *)
(*    str as above                                                         *)
(* Durations and ISO timestamps of step records are left out (timing);     *)
(* created_at / completed_at are readings of a logical clock.              *)
(* Task id n stands for the string "task_<n>".                             *)
(***************************************************************************)
EXTENDS Integers, Sequences, FiniteSets, TLC

\* ------------------------------------------------------------------ bounds

\* Longest execution_plan the LLM returns.
MaxPlanLen == 2

\* Most content chunks the LLM streams for one non-empty reply.
MaxChunks == 1

\* Most tool_use steps one coroutine runs against the MCP client.
MaxToolSteps == 1

\* Most discovery cycles (the first one, periodic and on-demand refreshes).
MaxCycles == 2

\* Most agent calls made against a registry that discovery is refreshing.
MaxCalls == 1

\* Most tasks whose analysis goes through the LLM client.
MaxEnvoyTasks == 2

\* Most JSON-RPC requests one coroutine sends.
MaxRpcCalls == 1

\* Most POST /task submissions, batch and streaming together.
MaxSubmissions == 3

\* The conversation history is followed up to this length.
MaxHistoryLen == 22

\* ---------------------------------------------------------- Python values

Str(toks) == [type |-> "str", toks |-> toks]

PyList(toks) == [type |-> "list", toks |-> toks]

PyDict(d) == [type |-> "dict", val |-> d]

\* {} : the dict with no key.
EmptyDict == << >>

\* d.get(k, dflt)
Get(d, k, dflt) == IF k \in DOMAIN d THEN d[k] ELSE dflt

\* Only str targets can be dict keys or set members; a list raises TypeError.
Hashable(v) == v.type = "str"

\* `tok in s` for a str s (substring test on the token level).
Contains(s, tok) == \E i \in 1..Len(s.toks) : s.toks[i] = tok

\* Index of the first ":" of s (only used when Contains(s, ":")).
FirstColon(s) == CHOOSE i \in 1..Len(s.toks) :
                    /\ s.toks[i] = ":"
                    /\ \A j \in 1..(i - 1) : s.toks[j] # ":"

\* s.split(":", 1) -> <<server_name, actual_tool>>
SplitColon(s) == << Str(SubSeq(s.toks, 1, FirstColon(s) - 1)),
                    Str(SubSeq(s.toks, FirstColon(s) + 1, Len(s.toks))) >>

\* `not s` : the empty string is falsy.
Falsy(s) == s.toks = << >>

Last(s) == s[Len(s)]

\* Number of positions of sequence s that satisfy Test.
CountIf(s, Test(_)) == Cardinality({ i \in 1..Len(s) : Test(s[i]) })

\* ------------------------------------------------------------------ inputs

\* Registries the discovery can have built before a task arrives: the dict
\* discovered_agents as the sequence of its items in insertion order.
AgentEntry(name, endpoint, protocol, method) ==
    [agent_id |-> Str(<<name>>),
     info |-> [endpoint |-> endpoint, protocol |-> protocol,
               discovery_method |-> method]]

Registries ==
    { << >>,
      << AgentEntry("researcher", "http://localhost:8001", "a2a", "agent_card") >>,
      << AgentEntry("researcher", "http://localhost:8001", "a2a", "agent_card"),
         AgentEntry("ui_designer_agent", "http://localhost:8003", "legacy",
                    "capabilities_endpoint") >> }

\* Task descriptions a client posts; the empty one is rejected.
Descriptions ==
    { Str(<< >>), Str(<<"Analyze", "market">>), Str(<<"Design", "UI">>) }

\* The steps an LLM plan is built from: action, target.
StepKinds ==
    { <<"agent_call", Str(<<"researcher">>)>>,
      <<"agent_call", Str(<<"ui_designer_agent">>)>>,
      <<"agent_call", PyList(<<"researcher">>)>>,
      <<"tool_use", Str(<<"fs", ":", "read_file">>)>>,
      <<"tool_use", Str(<<"read_file">>)>>,
      <<"coordination", Str(<<"merge">>)>>,
      <<"summarize", Str(<<"x">>)>> }

\* How the LLM numbers the steps: 1..n, or no "step" key at all.
Numberings == {"seq", "none"}

Strategies == {"single_agent", "hybrid"}

PlanStep(kind, k, numbering) ==
    LET base == [action |-> kind[1], target |-> kind[2],
                 task |-> Str(<<"do">>), dependencies |-> << >>]
    IN  IF numbering = "seq" THEN base @@ [step |-> k] ELSE base

PlanShapes == UNION { [1..n -> StepKinds] : n \in 0..MaxPlanLen }

ExecutionPlans ==
    { [k \in 1..Len(shape) |-> PlanStep(shape[k], k, numbering)] :
        shape \in PlanShapes, numbering \in Numberings }

\* JSON documents the LLM may produce.
PlanObjects ==
    { [analysis |-> "a", execution_strategy |-> s, execution_plan |-> p] :
        s \in Strategies, p \in ExecutionPlans }

OtherObjects ==
    { [analysis |-> "a", execution_strategy |-> "single_agent"],
      [analysis |-> "a", execution_plan |-> << >>],
      [response |-> Str(<<"I", "cannot", "help">>)] }

JsonDocuments ==
    { PyDict(d) : d \in PlanObjects \cup OtherObjects } \cup { Str(<<"ok">>) }

\* LLM reply texts: nothing at all, prose without any JSON in it, a JSON
\* document alone, or a JSON document inside a ```json fence.
Replies ==
    { [form |-> "empty"], [form |-> "text"] }
    \cup { [form |-> f, doc |-> d] : f \in {"json", "fenced"}, d \in JsonDocuments }

\* MCP servers of config/mcp_servers.json, in file order, and their tools.
McpServerNames == <<"fs">>

McpServerTools(server) == IF server = "fs" THEN {"read_file"} ELSE {}

\* What one agent HTTP round trip can do.
A2AOutcomes == {"ok", "no_result", "http_error", "transport_error"}

LegacyOutcomes == {"ok", "http_error", "transport_error"}

\* ------------------------------------------------------- decision parsing

\* A decoder's outcome: the decoded value, or the exception it raised.
Decoded(v) == [ok |-> TRUE, value |-> v]

Raised(e) == [ok |-> FALSE, exc |-> e]

\* validate_decision_structure on a parsed document.
validate_decision_structure(data) ==
    IF data.type # "dict" THEN Raised("Data is not a dictionary")
    ELSE LET d == data.val IN
         IF "response" \in DOMAIN d /\ "approach" \notin DOMAIN d
         THEN Decoded(PyDict([approach |-> "direct_response",
                              reasoning |-> "Direct response provided",
                              response |-> d.response]))
         ELSE LET inferred ==
                    IF DOMAIN d \cap {"steps", "agents", "tasks", "workflow"} # {}
                    THEN "agent_coordination"
                    ELSE IF DOMAIN d \cap {"tools", "mcp", "figma"} # {}
                         THEN "mcp_tools" ELSE "direct_response"
                  d1 == d @@ [approach |-> inferred]
                  d2 == d1 @@ [reasoning |-> "Decision made based on user request"]
                  d3 == IF d2.approach \in {"agent_coordination", "direct_response",
                                            "mcp_tools"}
                        THEN d2
                        ELSE [d2 EXCEPT !.approach = "direct_response",
                                        !.reasoning = "Invalid approach specified"]
              IN  Decoded(PyDict(d3))

\* LLMResponseParser.parse_llm_response: <<success, data>>.
parse_llm_response(reply) ==
    CASE reply.form \in {"empty", "whitespace"} ->
            <<FALSE, PyDict([error |-> "Empty response"])>>
      [] reply.form = "json" -> <<TRUE, reply.doc>>
      [] reply.form = "fenced" -> <<TRUE, reply.doc>>
      [] OTHER -> <<FALSE, PyDict([approach |-> "direct_response",
                                   reasoning |-> "Could not parse as structured data",
                                   response |-> Str(<<"text">>),
                                   parse_attempted |-> TRUE])>>

\* parse_decision_response: always a dict.
parse_decision_response(reply) ==
    LET parsed == parse_llm_response(reply) IN
    IF parsed[1]
    THEN LET v == validate_decision_structure(parsed[2]) IN
         IF v.ok THEN v.value
         ELSE PyDict([approach |-> "direct_response",
                      reasoning |-> "Response structure validation failed",
                      response |-> Str(<<"text">>),
                      validation_error |-> v.exc])
    ELSE parsed[2]

\* llm_decision['execution_strategy'] of the logging line: a KeyError on a
\* dict without the key, a TypeError on anything that is not a dict.
RequireStrategy(value) ==
    IF value.type # "dict" THEN Raised("TypeError")
    ELSE IF "execution_strategy" \notin DOMAIN value.val THEN Raised("KeyError")
    ELSE Decoded(value)

\* The batch path's decoding of the analysis reply (process_task_with_llm).
DecodeBatch(reply) ==
    IF reply.form = "empty" THEN Raised("LLM returned an empty response")
    ELSE RequireStrategy(parse_decision_response(reply))

\* The streaming path's decoding: json.loads, else the text between the
\* first "{" and the last "}" (process_task_with_llm_stream).
DecodeStream(reply) ==
    CASE reply.form = "json" -> RequireStrategy(reply.doc)
      [] reply.form = "fenced" ->
            IF reply.doc.type = "dict" THEN RequireStrategy(reply.doc)
            ELSE Raised("not valid JSON")
      [] OTHER -> Raised("not valid JSON")

\* ------------------------------------------------------------ agent calls

\* AgentDiscovery.get_available_agents: the registry's keys in insertion order.
get_available_agents(reg) == [i \in 1..Len(reg) |-> reg[i].agent_id]

\* Position of agent_id in the registry, 0 when it is not a key.
AgentIndex(reg, agent_id) ==
    IF \E i \in 1..Len(reg) : reg[i].agent_id = agent_id
    THEN CHOOSE i \in 1..Len(reg) : reg[i].agent_id = agent_id
    ELSE 0

\* A variant payload that delegates the task without the earlier results.
\* C10 tells it from the code.
TaskDataWithoutHistory(task_description, previous_results) ==
    [type |-> "delegated_task",
     description |-> task_description,
     context |-> [previous_results |-> << >>,
                  delegated_by |-> "common_agent"]]

\* The task object _call_agent builds for the agent.
TaskData(task_description, previous_results) ==
    [type |-> "delegated_task",
     description |-> task_description,
     context |-> [previous_results |-> previous_results,
                  delegated_by |-> "common_agent"]]

\* The POST of _call_a2a_agent (request and session ids left out).
A2ARequest(endpoint, task_data) ==
    [endpoint |-> endpoint, path |-> "/tasks/send",
     json |-> [jsonrpc |-> "2.0", method |-> "tasks/send",
               params |-> [message |->
                             [role |-> "user",
                              parts |-> << [type |-> "text",
                                            text |-> task_data.description],
                                           [type |-> "data",
                                            data |-> Get(task_data, "context",
                                                         EmptyDict)] >>],
                           acceptedOutputModes |-> <<"text", "application/json">>]]]

\* The POST of _call_legacy_agent.
LegacyRequest(endpoint, task_data) ==
    [endpoint |-> endpoint, path |-> "/task", json |-> task_data]

\* What _call_a2a_agent returns for an answer (a transport error raises).
A2AResult(outcome) ==
    CASE outcome = "ok" -> [success |-> TRUE, result |-> "agent_result",
                            protocol |-> "a2a"]
      [] outcome = "no_result" -> [error |-> "No result in A2A response",
                                   response |-> "body"]
      [] OTHER -> [error |-> "A2A call failed: HTTP", response |-> "text"]

\* What _call_legacy_agent returns for an answer (a transport error raises).
LegacyResult(outcome) ==
    IF outcome = "ok"
    THEN [success |-> TRUE, result |-> "agent_result", protocol |-> "legacy"]
    ELSE [error |-> "Legacy call failed: HTTP", response |-> "text"]

\* The outcomes one _call_agent can meet.
AgentOutcomes(reg, agent_id) ==
    IF ~Hashable(agent_id) \/ AgentIndex(reg, agent_id) = 0 THEN {"none"}
    ELSE IF reg[AgentIndex(reg, agent_id)].info.protocol = "a2a"
         THEN A2AOutcomes ELSE LegacyOutcomes

\* _call_agent: [raised, result | exc, requests sent].  The registry lookup
\* is outside the try block: an unhashable agent_id raises out of the call.
\* Inside the try block every exception becomes an error result.
call_agent(reg, agent_id, task_description, previous_results, outcome) ==
    IF ~Hashable(agent_id)
    THEN [raised |-> TRUE, exc |-> "unhashable type", requests |-> << >>]
    ELSE IF AgentIndex(reg, agent_id) = 0
    THEN [raised |-> FALSE, result |-> [error |-> "Agent not found"],
          requests |-> << >>]
    ELSE LET info == reg[AgentIndex(reg, agent_id)].info
             task_data == TaskData(task_description, previous_results)
             request == IF Get(info, "protocol", "unknown") = "a2a"
                        THEN A2ARequest(info.endpoint, task_data)
                        ELSE LegacyRequest(info.endpoint, task_data)
             result == IF outcome = "transport_error"
                       THEN [error |-> "transport error", agent |-> agent_id]
                       ELSE IF Get(info, "protocol", "unknown") = "a2a"
                            THEN A2AResult(outcome)
                            ELSE LegacyResult(outcome)
         IN  [raised |-> FALSE, result |-> result, requests |-> <<request>>]

\* ---------------------------------------------------------------- MCP tools

\* The sets of MCP servers whose runtime tool discovery answers.
LiveSets == SUBSET { McpServerNames[i] : i \in 1..Len(McpServerNames) }

\* _infer_server_from_tool: the first configured server whose discovered
\* tool list holds tool_name, else "unknown".
infer_server_from_tool(tool_name, live) ==
    LET has(i) == /\ McpServerNames[i] \in live
                  /\ \E t \in McpServerTools(McpServerNames[i]) :
                        tool_name = Str(<<t>>)
    IN  IF \E i \in 1..Len(McpServerNames) : has(i)
        THEN Str(<< McpServerNames[CHOOSE i \in 1..Len(McpServerNames) :
                        has(i) /\ \A j \in 1..(i - 1) : ~has(j)] >>)
        ELSE Str(<<"unknown">>)

\* _execute_mcp_tool around the placeholder _invoke_mcp_tool_via_protocol.
execute_mcp_tool(server_name, tool_name, task_description) ==
    [success |-> TRUE, server |-> server_name, tool |-> tool_name,
     task_description |-> task_description,
     execution_method |-> "real_mcp_protocol",
     result |-> [status |-> "mcp_protocol_required", server |-> server_name,
                 tool |-> tool_name, task |-> task_description]]

\* _use_mcp_tool: never raises; str.split on a list is caught.
use_mcp_tool(tool_name, task_description, live) ==
    IF Contains(tool_name, ":") /\ tool_name.type # "str"
    THEN [success |-> FALSE, error |-> "no attribute split", tool |-> tool_name,
          task_description |-> task_description]
    ELSE LET server_name == IF Contains(tool_name, ":")
                            THEN SplitColon(tool_name)[1]
                            ELSE infer_server_from_tool(tool_name, live)
             actual_tool == IF Contains(tool_name, ":")
                            THEN SplitColon(tool_name)[2] ELSE tool_name
         IN  [success |-> TRUE, server |-> server_name, tool |-> actual_tool,
              result |-> execute_mcp_tool(server_name, actual_tool,
                                          task_description),
              task_description |-> task_description,
              execution_method |-> "LLM_driven_MCP_call"]

\* _coordinate_action
coordinate_action(target, description, previous_results) ==
    [success |-> TRUE, coordination_target |-> target,
     description |-> description, result |-> "coordination done",
     processed_results |-> Len(previous_results)]

\* ------------------------------------------------------------ step executor

\* What the environment decides for one step: the agent's answer, and the
\* MCP servers that answer a runtime tool discovery.
StepOutcomes(reg, action, target) ==
    IF action = "agent_call"
    THEN { [agent |-> o, live |-> {}] : o \in AgentOutcomes(reg, target) }
    ELSE IF action = "tool_use" /\ ~Contains(target, ":")
         THEN { [agent |-> "none", live |-> l] : l \in LiveSets }
         ELSE { [agent |-> "none", live |-> {}] }

\* The if / elif chain on `action` of both executors: the handler called, the
\* context it is handed beside target and task, what it returns or raises,
\* and the requests it sends.
Dispatch(reg, action, target, task_desc, execution_results, oc) ==
    CASE action = "agent_call" ->
            call_agent(reg, target, task_desc, execution_results, oc.agent)
            @@ [context |-> [previous_results |-> execution_results]]
      [] action = "tool_use" ->
            [raised |-> FALSE,
             result |-> use_mcp_tool(target, task_desc, oc.live),
             requests |-> << >>, context |-> EmptyDict]
      [] action = "coordination" ->
            [raised |-> FALSE,
             result |-> coordinate_action(target, task_desc, execution_results),
             requests |-> << >>,
             context |-> [previous_results |-> execution_results]]
      [] OTHER ->
            [raised |-> FALSE, result |-> [error |-> "Unknown action"],
             requests |-> << >>, context |-> EmptyDict]

\* The record _execute_llm_plan appends to execution_results.
BatchRecord(step_num, action, target, d) ==
    IF d.raised
    THEN [step |-> step_num, action |-> action, target |-> target,
          error |-> d.exc]
    ELSE [step |-> step_num, action |-> action, target |-> target,
          result |-> d.result]

\* The record _execute_llm_plan_stream appends to execution_results.
StreamRecord(step_num, action, target, d) ==
    [step |-> step_num, action |-> action, target |-> target,
     result |-> IF d.raised THEN [error |-> d.exc, step |-> step_num]
                ELSE d.result]

\* The entry appended to the task's steps log ("execution_step_<n>").
TaskStepEntry(step_num, action, target, result) ==
    [step |-> <<"execution_step", step_num>>, action |-> action,
     target |-> target, result |-> result]

\* A variant executor that closes every step, agent calls included, with a
\* step_completed event.  The event order of C2 tells it from the code.
StreamStepEventsAlwaysCompleted(step_num, action, target, task_desc, d) ==
    LET started == [event |-> "step_started", step_number |-> step_num,
                    action |-> action, target |-> target, task |-> task_desc]
        completed == [event |-> "step_completed", step_number |-> step_num,
                      action |-> action, target |-> target,
                      success |-> ~d.raised]
    IN  CASE action = "agent_call" ->
                << started,
                   [event |-> "agent_call_started", agent_id |-> target],
                   [event |-> "agent_call_completed", agent_id |-> target],
                   completed >>
          [] action = "tool_use" ->
                << started, [event |-> "mcp_tool_used", tool |-> target],
                   completed >>
          [] OTHER -> << started, completed >>

\* The events _execute_llm_plan_stream yields for one step.
StreamStepEvents(step_num, action, target, task_desc, d) ==
    LET started == [event |-> "step_started", step_number |-> step_num,
                    action |-> action, target |-> target, task |-> task_desc]
        announce == CASE action = "agent_call" ->
                            << [event |-> "agent_call_started",
                                agent_id |-> target] >>
                      [] action = "tool_use" ->
                            << [event |-> "mcp_tool_used", tool |-> target] >>
                      [] OTHER -> << >>
    IN  IF d.raised
        THEN <<started>> \o announce \o
             << [event |-> "step_completed", step_number |-> step_num,
                 action |-> action, target |-> target, success |-> FALSE,
                 error |-> d.exc] >>
        ELSE IF action = "agent_call"
        THEN <<started>> \o announce \o
             << [event |-> "agent_call_completed", agent_id |-> target,
                 result |-> d.result] >>
        ELSE <<started>> \o announce \o
             << [event |-> "step_completed", step_number |-> step_num,
                 action |-> action, target |-> target,
                 success |-> Get(d.result, "success", TRUE),
                 result |-> d.result] >>

\* r.get("result", {}).get("success", True) of the execution_completed event.
RecordSucceeded(r) == Get(Get(r, "result", EmptyDict), "success", TRUE)

ExecutionCompleted(execution_plan, execution_results) ==
    [event |-> "execution_completed",
     total_steps |-> Len(execution_plan),
     successful_steps |-> CountIf(execution_results, RecordSucceeded),
     failed_steps |-> Len(execution_results)
                      - CountIf(execution_results, RecordSucceeded),
     results |-> execution_results]

\* _generate_execution_summary: <<strategy, successful, total>>.
RecordHasNoError(r) == "error" \notin DOMAIN r

generate_execution_summary(llm_decision, execution_results) ==
    [strategy |-> Get(llm_decision, "execution_strategy", "unknown"),
     successful_steps |-> CountIf(execution_results, RecordHasNoError),
     total_steps |-> Len(execution_results)]

\* -------------------------------------------------------------------- state

VARIABLES
    discovered_agents,  \* AgentDiscovery.discovered_agents, in insertion order
    llm_client,         \* TRUE iff self.llm_client was initialised
    task_counter,       \* self.task_counter
    active_tasks,       \* self.active_tasks: task id -> task record
    proc,               \* per submission: the handler's position and locals
    events,             \* per submission: the SSE messages sent to the caller
    responses,          \* per submission: the HTTP reply of the batch shape
    requests,           \* the requests sent to agents, in order
    contexts,           \* per submission: the context handed to each step
    clock,              \* datetime.now()
    active_servers,     \* MCPProtocolClient.active_servers: name -> child
    children,           \* per MCP server name: the live child processes
    mcp_down,           \* the MCP servers whose command cannot be spawned
    callers,            \* per coroutine using the MCP client: its position
    mcp_log,            \* the JSON-RPC messages written to MCP children
    tool_results,       \* the results _use_mcp_tool has returned, in order
    refresh,            \* per discovery coroutine: the endpoint it probes next
    cycles,             \* the discovery cycles started so far
    last_entry,         \* per endpoint: the entry its last good probe stored
    missed,             \* per endpoint: it failed a probe since that entry
    agent_capabilities, \* AgentDiscovery.agent_capabilities: agent id -> list
    alone,              \* the latest discovery cycle met no other cycle
    connection_verified,    \* EnhancedSiliconFlowProvider._connection_verified
    conversation_history,   \* LLMClient.conversation_history
    envoy_task,         \* the task whose analysis is using the LLM client
    envoy_log,          \* the completions the LLM client has been asked for
    request_id,         \* MCPProtocolClient.request_id
    server_tools,       \* the keys of MCPProtocolClient.server_tools
    rpc,                \* per coroutine in send_jsonrpc_request: its position
    stdin,              \* per MCP child: the request ids written to its stdin
    stdout,             \* per MCP child: the response lines not read yet
    waiter,             \* per MCP child: the coroutine waiting in readline
    rpc_log,            \* the outcomes of the finished send_jsonrpc_request calls
    submissions,        \* the POST /task submissions handled so far, in order
    twin,               \* two executions of one plan that differ in dependencies only
    parser,             \* parse_decision_response at work: its input and what it returned
    status_walk,        \* GET /status at work: its place in the registry and its report
    probing,            \* _discover_single_agent on one endpoint: the probes sent and what was stored
    closing,            \* per coroutine in close_server: its position and its server
    pair                \* the batch and the streaming executor on one plan

task_vars == << discovered_agents, llm_client, task_counter, active_tasks,
               proc, events, responses, requests, contexts, clock >>

mcp_vars == << active_servers, children, mcp_down, callers, mcp_log,
              tool_results >>

discovery_vars ==
    << refresh, cycles, last_entry, missed, agent_capabilities, alone >>

envoy_vars ==
    << connection_verified, conversation_history, envoy_task, envoy_log >>

rpc_vars ==
    << request_id, server_tools, rpc, stdin, stdout, waiter, rpc_log >>

submit_vars == << submissions >>

twin_vars == << twin >>

parser_vars == << parser >>

status_vars == << status_walk >>

probe_vars == << probing >>

close_vars == << closing >>

pair_vars == << pair >>

service_vars ==
    << mcp_vars, discovery_vars, envoy_vars, rpc_vars, submit_vars, twin_vars, parser_vars, status_vars, probe_vars, close_vars, pair_vars >>

vars == << task_vars, service_vars >>

\* The submissions followed: the first POST /task of the process, "task_0".
TaskIds == {0}

NoResponse == [sent |-> FALSE]

IdleProc ==
    [pc |-> "idle", mode |-> "none", description |-> Str(<< >>),
     decoding |-> Raised("not analysed"), llm_decision |-> EmptyDict,
     execution_plan |-> << >>, strategy |-> "unknown",
     execution_results |-> << >>, idx |-> 1, result |-> EmptyDict]

\* --------------------------------------------------------------- LLM client

\* What the provider's POST to /chat/completions meets.
Http(code) == [kind |-> "http", code |-> code]

RemoteOutcomes ==
    { Http(200), Http(401), Http(404), Http(429), Http(503),
      [kind |-> "timeout", code |-> 0], [kind |-> "network", code |-> 0],
      [kind |-> "bad_json", code |-> 200] }

\* The analysis prompts of the tasks.
EnvoyPrompts == { <<"prompt", "market">>, <<"prompt", "design">> }

\* "Hello, test connection"
TestMessage == <<"Hello, test connection">>

Message(role, content) == [role |-> role, content |-> content]

\* max_history of send_message
max_history == 20

\* verify_connection -> (is_connected, error_msg)
verify_connection(remote) ==
    CASE remote.kind = "timeout" ->
             [ok |-> FALSE, msg |-> <<"Connection timeout after", 60>>]
      [] remote.kind = "network" -> [ok |-> FALSE, msg |-> <<"Network error">>]
      [] remote.kind = "bad_json" /\ remote.code = 200 ->
             [ok |-> TRUE, msg |-> <<"Connection successful">>]
      [] remote.code = 200 -> [ok |-> TRUE, msg |-> <<"Connection successful">>]
      [] remote.code = 401 ->
             [ok |-> FALSE, msg |-> <<"Authentication failed - check API key">>]
      [] remote.code = 404 ->
             [ok |-> FALSE, msg |-> <<"Model not found - check model name">>]
      [] OTHER -> [ok |-> FALSE, msg |-> <<"HTTP", remote.code>>]

ErrorResponse(content, error) ==
    [choices |-> << [message |-> [content |-> content]] >>, error |-> error]

\* The body of chat_completion after the connection check.
PostCompletion(remote) ==
    CASE remote.kind = "timeout" ->
             ErrorResponse(<<"LLM request timeout after", 60>>, <<"timeout">>)
      [] remote.kind = "network" ->
             ErrorResponse(<<"LLM network error">>, <<"network_error">>)
      [] remote.kind = "bad_json" ->
             ErrorResponse(<<"LLM returned invalid JSON response">>,
                           <<"invalid_response">>)
      [] remote.code = 200 ->
             [choices |-> << [message |-> [content |-> <<"reply">>]] >>]
      [] remote.code = 401 ->
             ErrorResponse(<<"LLM authentication failed - check API key">>,
                           <<"authentication_failed">>)
      [] remote.code = 429 ->
             ErrorResponse(<<"LLM rate limit exceeded - please try again later">>,
                           <<"rate_limit_exceeded">>)
      [] remote.code >= 500 ->
             ErrorResponse(<<"LLM service unavailable - server error">>,
                           <<"server_error">>)
      [] OTHER ->
             ErrorResponse(<<"LLM request failed: HTTP", remote.code>>,
                           <<"http_error", remote.code>>)

\* chat_completion: the response, the flag afterwards, and the remote
\* failure that decided the response.  probe is what verify_connection
\* meets when the connection is not verified yet, remote what the
\* completion request meets.  Every exception is caught.
chat_completion(verified, probe, remote) ==
    IF ~verified /\ ~verify_connection(probe).ok
    THEN [raised |-> FALSE,
          response |-> ErrorResponse(<<"LLM connection failed">>
                                         \o verify_connection(probe).msg,
                                     verify_connection(probe).msg),
          verified |-> FALSE, met |-> probe]
    ELSE [raised |-> FALSE, response |-> PostCompletion(remote),
          verified |-> TRUE, met |-> remote]

\* The text stream_completion yields, joined.
stream_completion(verified, probe, remote) ==
    IF ~verified /\ ~verify_connection(probe).ok
    THEN [text |-> <<"LLM connection failed">> \o verify_connection(probe).msg,
          verified |-> FALSE]
    ELSE [text |-> CASE remote.kind = "timeout" ->
                           <<"LLM streaming timeout after", 60>>
                     [] remote.kind = "network" ->
                           <<"LLM streaming network error">>
                     [] remote.kind = "bad_json" -> << >>
                     [] remote.code = 200 -> <<"reply">>
                     [] OTHER -> <<"LLM streaming error: HTTP", remote.code>>,
          verified |-> TRUE]

\* The messages send_message and stream_message build with no system
\* prompt and include_history left at its default True.
BuildMessages(history, message) == Append(history, Message("user", message))

\* self.conversation_history[-max_history:]
LastMessages(history) ==
    IF Len(history) > max_history
    THEN SubSeq(history, Len(history) - max_history + 1, Len(history))
    ELSE history

\* The history after send_message.
HistoryAfterSend(history, message, assistant_message) ==
    LastMessages(history \o << Message("user", message),
                               Message("assistant", assistant_message) >>)

\* The history after stream_message: it is not trimmed.
HistoryAfterStream(history, message, full_response) ==
    history \o << Message("user", message),
                  Message("assistant", full_response) >>

EnvoyIdle ==
    /\ connection_verified = FALSE
    /\ conversation_history = << >>
    /\ envoy_task = [n |-> 0, phase |-> "idle", prompt |-> << >>]
    /\ envoy_log = << >>

\* ---------------------------------------------------------- agent discovery

\* self.discovery_endpoints: the first two of the three configured endpoints,
\* in the configured order.
DiscoveryEndpoints == << "http://localhost:8001", "http://localhost:8002" >>

\* The coroutines that run discover_agents: initialize() and the periodic
\* refresh, and the handler of POST /admin/rediscover.
Refreshers == {"periodic", "on_demand"}

\* The probes of _discover_single_agent in the order they are tried, with
\* the protocol tag an answer of each gives.
DiscoveryMethods ==
    << [method |-> "agent_card", protocol |-> "a2a"],
       [method |-> "agent_card_standard", protocol |-> "a2a"],
       [method |-> "capabilities_endpoint", protocol |-> "legacy"],
       [method |-> "health_check", protocol |-> "unknown"] >>

\* The name an answering endpoint reports; "" stands for no name field.
ReportedNames == {"Researcher", "researcher", ""}

\* name.lower().replace(" ", "_"), after the default "unknown".
AgentIdOf(name) ==
    CASE name = "" -> "unknown"
      [] name = "Researcher" -> "researcher"
      [] OTHER -> name

\* What one call of _discover_single_agent meets: the first probe that
\* answers 200 and the name in its answer, or no probe answers.
ProbeOutcomes ==
    { [answered |-> TRUE, probe |-> i, name |-> n] :
          i \in 1..Len(DiscoveryMethods), n \in ReportedNames }
    \cup { [answered |-> FALSE] }

\* A variant that keeps the entry an agent id already has. C30 tells it
\* from the code.
RegistryPutIfAbsent(reg, entry) ==
    IF \E i \in 1..Len(reg) : reg[i].agent_id = entry.agent_id
    THEN reg
    ELSE Append(reg, entry)

\* self.discovered_agents[agent_id] = {...}: a dict keeps the position of a
\* key that is overwritten.
RegistryPut(reg, entry) ==
    IF \E i \in 1..Len(reg) : reg[i].agent_id = entry.agent_id
    THEN [i \in 1..Len(reg) |->
             IF reg[i].agent_id = entry.agent_id THEN entry ELSE reg[i]]
    ELSE Append(reg, entry)

\* A variant that drops the entries of an endpoint that did not answer.
\* C13 tells it from the code.
EvictOnFailedProbe(reg, endpoint) ==
    LET Others(e) == e.info.endpoint # endpoint IN SelectSeq(reg, Others)

\* The registry after no probe of the endpoint answered: a warning is
\* logged.
AfterFailedProbe(reg, endpoint) == reg

NoEntry == [agent_id |-> Str(<< >>)]

\* The list an answer carries for agent_capabilities: agent_card.get("skills",
\* []) of an agent card and capabilities.get("capabilities", []) of a
\* capabilities answer, named here by the answer it is read from. The
\* /health branch reads none and leaves agent_capabilities alone.
SkillsIn(endpoint, method) ==
    IF method = "health_check"
    THEN << >>
    ELSE << [endpoint |-> endpoint, discovery_method |-> method] >>

\* self.agent_capabilities[agent_id] = ... in the three branches that have
\* the line.
PutCapabilities(caps, agent_id, endpoint, method) ==
    IF method = "health_check"
    THEN caps
    ELSE [k \in DOMAIN caps \cup {agent_id} |->
             IF k = agent_id THEN SkillsIn(endpoint, method) ELSE caps[k]]

\* self.agent_capabilities.get(agent_id, [])
get_agent_capabilities(agent_id) ==
    IF agent_id \in DOMAIN agent_capabilities
    THEN agent_capabilities[agent_id]
    ELSE << >>

\* What one GET of _discover_single_agent can meet: no answer or a status
\* other than 200, a 200 whose body is not JSON, a 200 with a JSON value
\* that is not an object, and a 200 with a JSON object whose name field is a
\* string, is missing, or is null.
ProbeAnswers ==
    { [kind |-> "failed"], [kind |-> "not_json"], [kind |-> "array"],
      [kind |-> "object", name |-> "Researcher"],
      [kind |-> "object", name |-> ""],
      [kind |-> "object", name |-> "null"] }

\* The branch of a probe reaches its assignments and its return: the status
\* is 200, response.json() returns, .get exists on the value and .lower()
\* on the name. Anything else raises into the bare except, or skips the
\* if, and the next probe follows.
Stores(answer) == answer.kind = "object" /\ answer.name # "null"

\* A variant without the return that ends a branch. C31 tells it from the
\* code.
GoOnAfterStore(k) == k + 1

\* The probe that follows a branch that stored an entry: none, the branch
\* returns.
AfterStore(k) == Len(DiscoveryMethods) + 1

\* No endpoint is being probed.
ProbeIdle ==
    probing = [pc |-> "idle", k |-> 1, answers |-> << >>, sent |-> << >>,
               before |-> << >>, registry |-> << >>]

\* What the registry gives for an agent id at one moment: the endpoint and
\* protocol of its entry, and its capability list.
View(entry, capabilities) ==
    [endpoint |-> entry.info.endpoint, protocol |-> entry.info.protocol,
     capabilities |-> capabilities]

\* No GET /status is being answered.
StatusIdle ==
    status_walk = [pc |-> "idle", used |-> 0, pos |-> 1, item |-> NoEntry,
                   held |-> {}, report |-> << >>, views |-> << >>]

DiscoveryIdle ==
    /\ refresh = [r \in Refreshers |-> 0]
    /\ cycles = 0
    /\ last_entry = [i \in 1..Len(DiscoveryEndpoints) |-> NoEntry]
    /\ missed = [i \in 1..Len(DiscoveryEndpoints) |-> FALSE]
    /\ agent_capabilities = << >>
    /\ alone = TRUE

\* -------------------------------------------------------------- MCP client

\* The servers of the MCP configuration.
McpServers == { McpServerNames[i] : i \in 1..Len(McpServerNames) }

\* The coroutines that use the module-level mcp_client at the same time (the
\* tool_use steps of two tasks in flight).
Callers == {1, 2}

\* tool_use targets: with a server prefix, and bare tool names.
PrefixedTargets == { Str(<<"fs", ":", "read_file">>) }

BareTools == { Str(<<"read_file">>), Str(<<"write_file">>) }

ToolTask == Str(<<"do">>)

IdleCaller ==
    [pc |-> "idle", tool_name |-> Str(<< >>), server |-> 1, found |-> {},
     steps |-> 0]

\* MCPProtocolClient.__init__, and no coroutine inside the client.
McpIdle ==
    /\ active_servers = << >>
    /\ children = [name \in McpServers |-> 0]
    /\ mcp_down = {}
    /\ callers = [c \in Callers |-> IdleCaller]
    /\ mcp_log = << >>
    /\ tool_results = << >>

\* send_jsonrpc_request / send_jsonrpc_notification: the message written to
\* the stdin of the child the handle names.
JsonRpc(c, server_name, method, params) ==
    [caller |-> c, server |-> server_name,
     child |-> active_servers[server_name], method |-> method,
     params |-> params]

\* The messages of _initialize_server and of the tools/list request of
\* discover_tools.  An initialize that gets no answer is only logged, and
\* the initialized notification is then skipped.
DiscoveryMessages(c, server_name, answers) ==
    << JsonRpc(c, server_name, "initialize",
               [protocolVersion |-> "2024-11-05"]) >>
    \o (IF answers
        THEN << JsonRpc(c, server_name, "notifications/initialized",
                        EmptyDict) >>
        ELSE << >>)
    \o << JsonRpc(c, server_name, "tools/list", EmptyDict) >>

\* The for loop of _infer_server_from_tool after one server's tools were
\* queried: return on a hit, else the next server, else "unknown".
AfterServer(caller, found) ==
    IF \/ \E t \in McpServerTools(McpServerNames[caller.server]) :
             /\ McpServerNames[caller.server] \in found
             /\ caller.tool_name = Str(<<t>>)
       \/ caller.server = Len(McpServerNames)
    THEN [caller EXCEPT !.pc = "conclude", !.found = found]
    ELSE [caller EXCEPT !.pc = "check", !.server = @ + 1, !.found = found]

\* ------------------------------------------------------- JSON-RPC exchange

\* The MCP servers whose children are running when requests are sent.
RpcServers == {"fs", "git"}

IdleRpc == [pc |-> "idle", server |-> "fs", id |-> 0, calls |-> 0]

\* MCPProtocolClient.__init__; no coroutine inside send_jsonrpc_request.
RpcIdle ==
    /\ request_id = 0
    /\ server_tools = {}
    /\ rpc = [c \in Callers |-> IdleRpc]
    /\ stdin = [name \in RpcServers |-> << >>]
    /\ stdout = [name \in RpcServers |-> << >>]
    /\ waiter = [name \in RpcServers |-> 0]
    /\ rpc_log = << >>

\* _get_next_request_id
get_next_request_id(current) == current + 1

\* What a finished send_jsonrpc_request gave its caller: the result of the
\* response line it read, or the exception it raised.
RpcOutcome(c, call, outcome, answered) ==
    [caller |-> c, server |-> call.server, id |-> call.id,
     outcome |-> outcome, answered |-> answered]

\* The requests written to a child that it has not answered yet.
Unanswered(name, answered) ==
    LET Open(id) == id \notin answered IN SelectSeq(stdin[name], Open)

\* The coroutines that call close_server at the same time (close_server
\* itself, or the loop of close_all_servers).
Closers == {1, 2}

\* No coroutine is inside close_server.
CloseIdle == closing = [k \in Closers |-> [pc |-> "idle", server |-> "fs"]]

\* del self.active_servers[server_name]: the handles without the server's.
DropHandle(handles, name) ==
    [n \in DOMAIN handles \ {name} |-> handles[n]]

\* ------------------------------------------------------------- submissions

\* No submission has been handled.
SubmitIdle == submissions = << >>

\* A variant that hands out the id and leaves the counter where it is.
\* C24 tells it from the code.
TaskCounterKept(counter) == counter

\* self.agent.task_counter += 1, in the statement after the one that reads
\* the counter into task_id.
NextTaskCounter(counter) == counter + 1

\* The record submit_task stores for an accepted task.
NewTask(task_id, description, now) ==
    [id |-> task_id, data |-> [description |-> description],
     status |-> "processing", created_at |-> now, steps |-> << >>]

\* ------------------------------------------------ dependency-blind executor

\* The values the LLM may give the dependencies field of a step.
DependencyLists == { << >>, <<2, 1>> }

\* The plan with the dependencies field of step k set to deps[k].
WithDependencies(plan, deps) ==
    [k \in 1..Len(plan) |-> [plan[k] EXCEPT !.dependencies = deps[k]]]

\* A variant that holds back a step that names dependencies.  C25 tells it
\* from the code.
StepFieldsHoldingBack(step) ==
    [step_num |-> Get(step, "step", 0),
     action |-> IF Get(step, "dependencies", << >>) = << >>
                THEN Get(step, "action", "unknown") ELSE "unknown",
     target |-> Get(step, "target", Str(<< >>)),
     task_desc |-> Get(step, "task", Str(<< >>))]

\* The four fields both executors read from a plan step; no other key of
\* the step is read.
StepFields(step) ==
    [step_num |-> Get(step, "step", 0),
     action |-> Get(step, "action", "unknown"),
     target |-> Get(step, "target", Str(<< >>)),
     task_desc |-> Get(step, "task", Str(<< >>))]

\* One run of an executor: its records, its task steps log, the requests
\* it has sent.
NoRun == [execution_results |-> << >>, steps |-> << >>, requests |-> << >>]

\* One turn of the for loop of _execute_llm_plan (batch) or
\* _execute_llm_plan_stream (stream) on a step, under the outcome oc.
RunStep(mode, reg, run, step, oc) ==
    LET f == StepFields(step)
        d == Dispatch(reg, f.action, f.target, f.task_desc,
                      run.execution_results, oc)
        record == IF mode = "batch"
                  THEN BatchRecord(f.step_num, f.action, f.target, d)
                  ELSE StreamRecord(f.step_num, f.action, f.target, d)
        entry == TaskStepEntry(f.step_num, f.action, f.target,
                               Get(record, "result", EmptyDict))
    IN  [execution_results |-> Append(run.execution_results, record),
         steps |-> IF mode = "batch" /\ d.raised THEN run.steps
                   ELSE Append(run.steps, entry),
         requests |-> run.requests \o d.requests]

TwinIdle ==
    twin = [mode |-> "none", plain |-> << >>, other |-> << >>, idx |-> 1,
            plain_run |-> NoRun, other_run |-> NoRun]

PairIdle ==
    pair = [plan |-> << >>, idx |-> 1, batch |-> NoRun, stream |-> NoRun]

\* ---------------------------------------------------------- decision texts

\* Decision documents as the parser's docstring describes them, with the
\* approach present, absent or not one of the three, and with or without a
\* reasoning.
DecisionObjects ==
    { [approach |-> a, reasoning |-> "r"] :
          a \in {"agent_coordination", "direct_response", "mcp_tools", "bogus"} }
    \cup { [approach |-> "mcp_tools"], [approach |-> "bogus"],
           [steps |-> << >>], [tools |-> << >>], [note |-> "n"],
           [response |-> Str(<<"hello">>)] }

\* The texts handed to parse_decision_response: the LLM replies, decision
\* documents alone or fenced, and a text of white space only.
ParserInputs ==
    Replies
    \cup { [form |-> f, doc |-> PyDict(d)] :
               f \in {"json", "fenced"}, d \in DecisionObjects }
    \cup { [form |-> "whitespace"] }

ParserIdle == parser = [pc |-> "idle"]

Init ==
    /\ discovered_agents \in Registries
    /\ llm_client \in BOOLEAN
    /\ task_counter = 0
    /\ active_tasks = << >>
    /\ proc = [t \in TaskIds |-> IdleProc]
    /\ events = [t \in TaskIds |-> << >>]
    /\ responses = [t \in TaskIds |-> NoResponse]
    /\ requests = << >>
    /\ contexts = [t \in TaskIds |-> << >>]
    /\ clock = 0
    /\ McpIdle
    /\ DiscoveryIdle
    /\ EnvoyIdle
    /\ RpcIdle
    /\ SubmitIdle
    /\ TwinIdle
    /\ ParserIdle
    /\ StatusIdle
    /\ ProbeIdle
    /\ CloseIdle
    /\ PairIdle

\* A variant loop that gives up the rest of the plan once a step has raised
\* or returned an error.  C4 tells it from the code.
NextIndexAbortOnFailure(idx, total, d) ==
    IF d.raised \/ "error" \in DOMAIN d.result THEN total + 1 ELSE idx + 1

\* The for loop of both executors: the next step is taken whatever the
\* step just run returned or raised.
NextIndex(idx, total, d) == idx + 1

\* ----------------------------------------------------------- POST /task

\* submit_task with an empty description: the counter is consumed, no task
\* record is stored, the caller gets one error message or an HTTP 400.
SubmitRejected(mode) ==
    /\ task_counter \in TaskIds
    /\ LET t == task_counter IN
       /\ task_counter' = task_counter + 1
       /\ proc' = [proc EXCEPT ![t] = [@ EXCEPT !.pc = "rejected",
                                               !.mode = mode]]
       /\ IF mode = "stream"
          THEN /\ events' = [events EXCEPT ![t] =
                    << [error |-> "Task description is required"] >>]
               /\ UNCHANGED responses
          ELSE /\ responses' = [responses EXCEPT ![t] =
                    [sent |-> TRUE, http_status |-> 400,
                     detail |-> "Task description is required"]]
               /\ UNCHANGED events
    /\ UNCHANGED << discovered_agents, llm_client, active_tasks, requests,
                    contexts, clock >>
    /\ UNCHANGED service_vars

\* submit_task up to the point where the task is stored; the streaming
\* shape then yields task_started.
SubmitTask(mode, description) ==
    /\ task_counter \in TaskIds
    /\ ~Falsy(description)
    /\ LET t == task_counter IN
       /\ task_counter' = task_counter + 1
       /\ active_tasks' = (t :> [id |-> t,
                                 data |-> [description |-> description],
                                 status |-> "processing",
                                 created_at |-> clock,
                                 steps |-> << >>]) @@ active_tasks
       /\ proc' = [proc EXCEPT ![t] = [@ EXCEPT !.pc = "analyze",
                                               !.mode = mode,
                                               !.description = description]]
       /\ events' = [events EXCEPT ![t] =
             IF mode = "stream"
             THEN << [event |-> "task_started", task_id |-> t,
                      description |-> description] >>
             ELSE << >>]
    /\ clock' = clock + 1
    /\ UNCHANGED << discovered_agents, llm_client, responses, requests,
                    contexts >>
    /\ UNCHANGED service_vars

\* ------------------------------------------------------------ LLM analysis

LlmAnalysisEntry(llm_decision) ==
    [step |-> <<"llm_analysis">>, decision |-> llm_decision]

\* A variant that keeps one "current task" for the whole agent and writes
\* every step to it: the task accepted last.  C37 tells it from the code.
AppendStepToNewest(tasks, t, entry) ==
    LET newest == CHOOSE u \in DOMAIN tasks : \A v \in DOMAIN tasks : v <= u
    IN  [tasks EXCEPT ![newest] = [@ EXCEPT !.steps = Append(@, entry)]]

\* self.active_tasks[task_id]["steps"].append(entry)
AppendStep(tasks, t, entry) ==
    [tasks EXCEPT ![t] = [@ EXCEPT !.steps = Append(@, entry)]]

\* The chunks of a reply: none for the empty reply.
ChunkCounts(reply) == IF reply.form = "empty" THEN {0} ELSE 1..MaxChunks

\* process_task_with_llm_stream without an LLM client: an error event, and
\* the generator returns.
AnalyzeStreamNoClient(t) ==
    /\ proc[t].pc = "analyze" /\ proc[t].mode = "stream"
    /\ ~llm_client
    /\ events' = [events EXCEPT ![t] = @ \o
          << [event |-> "llm_analysis_started", task_id |-> t],
             [event |-> "error", error |-> "LLM client not initialised"] >>]
    /\ proc' = [proc EXCEPT ![t] = [@ EXCEPT !.pc = "respond"]]
    /\ UNCHANGED << discovered_agents, llm_client, task_counter, active_tasks,
                    responses, requests, contexts, clock >>
    /\ UNCHANGED service_vars

\* process_task_with_llm_stream from llm_analysis_started to the
\* execution_started event of _execute_llm_plan_stream, or to the error
\* event that precedes the fallback.
AnalyzeStreamOn(t, replies) ==
    /\ proc[t].pc = "analyze" /\ proc[t].mode = "stream"
    /\ llm_client
    /\ \E reply \in replies : \E n \in ChunkCounts(reply) :
       LET dec == DecodeStream(reply)
           analysis == << [event |-> "llm_analysis_started", task_id |-> t] >>
                       \o [i \in 1..n |-> [event |-> "llm_analysis_progress",
                                           chunk |-> i]]
                       \o << [event |-> "llm_analysis_completed",
                              analysis |-> reply] >>
       IN  IF dec.ok
           THEN LET llm_decision == dec.value.val
                    execution_plan == Get(llm_decision, "execution_plan", << >>)
                    strategy == Get(llm_decision, "execution_strategy", "unknown")
                IN  /\ events' = [events EXCEPT ![t] = @ \o analysis \o
                          << [event |-> "llm_decision_made",
                              decision |-> llm_decision],
                             [event |-> "execution_started",
                              strategy |-> strategy,
                              total_steps |-> Len(execution_plan)] >>]
                    /\ active_tasks' = AppendStep(active_tasks, t,
                                                  LlmAnalysisEntry(llm_decision))
                    /\ proc' = [proc EXCEPT ![t] =
                          [@ EXCEPT !.pc = "execute", !.decoding = dec,
                                    !.llm_decision = llm_decision,
                                    !.execution_plan = execution_plan,
                                    !.strategy = strategy]]
           ELSE /\ events' = [events EXCEPT ![t] = @ \o analysis \o
                      << [event |-> "error", error |-> dec.exc] >>]
                /\ proc' = [proc EXCEPT ![t] =
                      [@ EXCEPT !.pc = "fallback", !.decoding = dec]]
                /\ UNCHANGED active_tasks
    /\ UNCHANGED << discovered_agents, llm_client, task_counter, responses,
                    requests, contexts, clock >>
    /\ UNCHANGED service_vars

\* The LLM answers the streamed analysis with any of its replies.
AnalyzeStream(t) == AnalyzeStreamOn(t, Replies)

\* process_task_with_llm up to the call of _execute_llm_plan: the connection
\* test message, the analysis message, the decoding.  A missing client and
\* every decoding error raise into the fallback.
AnalyzeBatchOn(t, replies) ==
    /\ proc[t].pc = "analyze" /\ proc[t].mode = "batch"
    /\ \E reply \in replies :
       LET dec == IF llm_client THEN DecodeBatch(reply)
                  ELSE Raised("LLM client not initialised")
       IN  IF dec.ok
           THEN LET llm_decision == dec.value.val IN
                /\ active_tasks' = AppendStep(active_tasks, t,
                                              LlmAnalysisEntry(llm_decision))
                /\ proc' = [proc EXCEPT ![t] =
                      [@ EXCEPT !.pc = "execute", !.decoding = dec,
                                !.llm_decision = llm_decision,
                                !.execution_plan =
                                    Get(llm_decision, "execution_plan", << >>),
                                !.strategy =
                                    Get(llm_decision, "execution_strategy",
                                        "unknown")]]
           ELSE /\ proc' = [proc EXCEPT ![t] =
                      [@ EXCEPT !.pc = "fallback", !.decoding = dec]]
                /\ UNCHANGED active_tasks
    /\ UNCHANGED << discovered_agents, llm_client, task_counter, events,
                    responses, requests, contexts, clock >>
    /\ UNCHANGED service_vars

\* The LLM answers the analysis message with any of its replies.
AnalyzeBatch(t) == AnalyzeBatchOn(t, Replies)

\* ---------------------------------------------------------- plan execution

LogRequests(t, k, sent) ==
    requests \o [i \in 1..Len(sent) |-> [task |-> t, step |-> k,
                                         request |-> sent[i]]]

\* A variant that marks the task completed and records no time. C15 tells
\* it from the code.
MarkCompletedWithoutTime(now) == [status |-> "completed"]

\* task["status"] = "completed"; task["completed_at"] = now, with no await
\* between the two assignments.
MarkCompleted(now) == [status |-> "completed", completed_at |-> now]

\* One iteration of the for loop of _execute_llm_plan_stream.
ExecStepStream(t) ==
    /\ proc[t].pc = "execute" /\ proc[t].mode = "stream"
    /\ proc[t].idx <= Len(proc[t].execution_plan)
    /\ LET p == proc[t]
           step == p.execution_plan[p.idx]
           step_num == Get(step, "step", 0)
           action == Get(step, "action", "unknown")
           target == Get(step, "target", Str(<< >>))
           task_desc == Get(step, "task", Str(<< >>))
       IN  \E oc \in StepOutcomes(discovered_agents, action, target) :
           LET d == Dispatch(discovered_agents, action, target, task_desc,
                             p.execution_results, oc)
               record == StreamRecord(step_num, action, target, d)
           IN  /\ events' = [events EXCEPT ![t] = @ \o
                     StreamStepEvents(step_num, action, target, task_desc, d)]
               /\ active_tasks' = AppendStep(active_tasks, t,
                     TaskStepEntry(step_num, action, target, record.result))
               /\ proc' = [proc EXCEPT ![t] =
                     [@ EXCEPT !.execution_results = Append(@, record),
                               !.idx = NextIndex(p.idx, Len(p.execution_plan), d)]]
               /\ requests' = LogRequests(t, p.idx, d.requests)
               /\ contexts' = [contexts EXCEPT ![t] = Append(@, d.context)]
    /\ UNCHANGED << discovered_agents, llm_client, task_counter, responses,
                    clock >>
    /\ UNCHANGED service_vars

\* One iteration of the for loop of _execute_llm_plan.  A step that raised
\* is recorded in execution_results only, not in the task's steps log.
ExecStepBatch(t) ==
    /\ proc[t].pc = "execute" /\ proc[t].mode = "batch"
    /\ proc[t].idx <= Len(proc[t].execution_plan)
    /\ LET p == proc[t]
           step == p.execution_plan[p.idx]
           step_num == Get(step, "step", 0)
           action == Get(step, "action", "unknown")
           target == Get(step, "target", Str(<< >>))
           task_desc == Get(step, "task", Str(<< >>))
       IN  \E oc \in StepOutcomes(discovered_agents, action, target) :
           LET d == Dispatch(discovered_agents, action, target, task_desc,
                             p.execution_results, oc)
               record == BatchRecord(step_num, action, target, d)
           IN  /\ active_tasks' =
                     IF d.raised THEN active_tasks
                     ELSE AppendStep(active_tasks, t,
                            TaskStepEntry(step_num, action, target, d.result))
               /\ proc' = [proc EXCEPT ![t] =
                     [@ EXCEPT !.execution_results = Append(@, record),
                               !.idx = NextIndex(p.idx, Len(p.execution_plan), d)]]
               /\ requests' = LogRequests(t, p.idx, d.requests)
               /\ contexts' = [contexts EXCEPT ![t] = Append(@, d.context)]
    /\ UNCHANGED << discovered_agents, llm_client, task_counter, events,
                    responses, clock >>
    /\ UNCHANGED service_vars

\* The end of _execute_llm_plan_stream and of process_task_with_llm_stream:
\* execution_completed, then the task is marked completed.
FinishStream(t) ==
    /\ proc[t].pc = "execute" /\ proc[t].mode = "stream"
    /\ proc[t].idx > Len(proc[t].execution_plan)
    /\ events' = [events EXCEPT ![t] = Append(@,
          ExecutionCompleted(proc[t].execution_plan,
                             proc[t].execution_results))]
    /\ active_tasks' = [active_tasks EXCEPT ![t] = MarkCompleted(clock) @@ @]
    /\ proc' = [proc EXCEPT ![t] = [@ EXCEPT !.pc = "respond"]]
    /\ clock' = clock + 1
    /\ UNCHANGED << discovered_agents, llm_client, task_counter, responses,
                    requests, contexts >>
    /\ UNCHANGED service_vars

\* The dict _execute_llm_plan returns.
BatchResult(t, p) ==
    [task_id |-> t,
     execution_strategy |-> p.strategy,
     llm_decision |-> p.llm_decision,
     execution_results |-> p.execution_results,
     total_steps |-> Len(p.execution_plan),
     completed_steps |-> Len(p.execution_results),
     summary |-> generate_execution_summary(p.llm_decision,
                                            p.execution_results)]

\* The end of _execute_llm_plan and of process_task_with_llm: the result is
\* built, the task is marked completed and keeps the result.
FinishBatch(t) ==
    /\ proc[t].pc = "execute" /\ proc[t].mode = "batch"
    /\ proc[t].idx > Len(proc[t].execution_plan)
    /\ LET result == BatchResult(t, proc[t]) IN
       /\ active_tasks' = [active_tasks EXCEPT ![t] =
             (MarkCompleted(clock) @@ [result |-> result]) @@ @]
       /\ proc' = [proc EXCEPT ![t] = [@ EXCEPT !.pc = "respond",
                                               !.result = result]]
    /\ clock' = clock + 1
    /\ UNCHANGED << discovered_agents, llm_client, task_counter, events,
                    responses, requests, contexts >>
    /\ UNCHANGED service_vars

\* ----------------------------------------------------------------- fallback

\* The words _fallback_processing_stream looks for in the description (the
\* two Chinese words for "design" and "interface", and "UI").
FallbackKeywords == {"design_zh", "interface_zh", "UI"}

\* The agent _fallback_processing_stream calls, whatever the registry holds.
FallbackStreamTarget == Str(<<"ui_designer_agent">>)

\* _fallback_processing_stream
FallbackStream(t) ==
    /\ proc[t].pc = "fallback" /\ proc[t].mode = "stream"
    /\ LET description == proc[t].description
           started == [event |-> "fallback_started",
                       reason |-> "LLM processing failed"]
       IN  IF \E w \in FallbackKeywords : Contains(description, w)
           THEN \E o \in AgentOutcomes(discovered_agents, FallbackStreamTarget) :
                LET d == call_agent(discovered_agents, FallbackStreamTarget,
                                    description, << >>, o)
                IN  /\ events' = [events EXCEPT ![t] = @ \o
                          << started,
                             [event |-> "fallback_decision",
                              target |-> FallbackStreamTarget,
                              reason |-> "design task detected"],
                             IF d.raised
                             THEN [event |-> "fallback_error", error |-> d.exc]
                             ELSE [event |-> "fallback_completed",
                                   result |-> d.result] >>]
                    /\ requests' = LogRequests(t, 0, d.requests)
           ELSE /\ events' = [events EXCEPT ![t] = @ \o
                      << started,
                         [event |-> "fallback_error",
                          error |-> "no suitable handling"] >>]
                /\ UNCHANGED requests
    /\ proc' = [proc EXCEPT ![t] = [@ EXCEPT !.pc = "respond"]]
    /\ UNCHANGED << discovered_agents, llm_client, task_counter, active_tasks,
                    responses, contexts, clock >>
    /\ UNCHANGED service_vars

\* The agent _fallback_processing selects among the available ones.
SelectFallbackAgent(available_agents) == available_agents[1]

\* _fallback_processing: the task record is left as it is.
FallbackBatch(t) ==
    /\ proc[t].pc = "fallback" /\ proc[t].mode = "batch"
    /\ LET description == proc[t].description
           available_agents == get_available_agents(discovered_agents)
       IN  IF available_agents # << >>
           THEN LET selected_agent == SelectFallbackAgent(available_agents) IN
                \E o \in AgentOutcomes(discovered_agents, selected_agent) :
                LET d == call_agent(discovered_agents, selected_agent,
                                    description, << >>, o)
                IN  /\ proc' = [proc EXCEPT ![t] =
                          [@ EXCEPT !.pc = "respond",
                                    !.result =
                                       [task_id |-> t,
                                        execution_strategy |-> "fallback",
                                        selected_agent |-> selected_agent,
                                        result |-> d.result]]]
                    /\ requests' = LogRequests(t, 0, d.requests)
           ELSE /\ proc' = [proc EXCEPT ![t] =
                      [@ EXCEPT !.pc = "respond",
                                !.result =
                                   [task_id |-> t,
                                    execution_strategy |-> "failed",
                                    error |-> "no agents available",
                                    available_agents |-> available_agents]]]
                /\ UNCHANGED requests
    /\ UNCHANGED << discovered_agents, llm_client, task_counter, active_tasks,
                    events, responses, contexts, clock >>
    /\ UNCHANGED service_vars

\* ------------------------------------------------------------- the replies

\* The JSON reply of the batch shape.
RespondBatch(t) ==
    /\ proc[t].pc = "respond" /\ proc[t].mode = "batch"
    /\ responses' = [responses EXCEPT ![t] =
          [sent |-> TRUE, http_status |-> 200, task_id |-> t,
           status |-> "completed", result |-> proc[t].result]]
    /\ proc' = [proc EXCEPT ![t] = [@ EXCEPT !.pc = "done"]]
    /\ UNCHANGED << discovered_agents, llm_client, task_counter, active_tasks,
                    events, requests, contexts, clock >>
    /\ UNCHANGED service_vars

\* "error" not in s.get("result", {}) : the steps task_stream counts as
\* successful.
StepEntrySucceeded(s) == "error" \notin DOMAIN Get(s, "result", EmptyDict)

\* The targets task_stream collects for one action.
TargetsUsed(steps, action) ==
    { steps[i].target : i \in { j \in 1..Len(steps) :
                                  Get(steps[j], "action", "") = action } }

\* list(set(...)) over the collected targets raises on an unhashable one.
TaskCompletedRaises(task) ==
    \E tg \in TargetsUsed(task.steps, "agent_call")
              \cup TargetsUsed(task.steps, "tool_use") : ~Hashable(tg)

\* The task_completed message task_stream builds from the task record.
TaskCompleted(t, task) ==
    LET total_steps == Len(task.steps)
        successful_steps == CountIf(task.steps, StepEntrySucceeded)
    IN  [event |-> "task_completed", task_id |-> t,
         total_steps |-> total_steps,
         successful_steps |-> successful_steps,
         failed_steps |-> total_steps - successful_steps,
         execution_stats |->
            [total_steps |-> total_steps,
             successful_steps |-> successful_steps,
             failed_steps |-> total_steps - successful_steps,
             agents_used |-> TargetsUsed(task.steps, "agent_call"),
             tools_used |-> TargetsUsed(task.steps, "tool_use")],
         final_result |-> Get(task, "result", EmptyDict)]

\* The end of task_stream: the task_completed message, or the error message
\* of its except block when building task_completed raised.
RespondStream(t) ==
    /\ proc[t].pc = "respond" /\ proc[t].mode = "stream"
    /\ events' = [events EXCEPT ![t] = Append(@,
          IF TaskCompletedRaises(active_tasks[t])
          THEN [event |-> "error", error |-> "unhashable type"]
          ELSE TaskCompleted(t, active_tasks[t]))]
    /\ proc' = [proc EXCEPT ![t] = [@ EXCEPT !.pc = "done"]]
    /\ UNCHANGED << discovered_agents, llm_client, task_counter, active_tasks,
                    responses, requests, contexts, clock >>
    /\ UNCHANGED service_vars

\* ---------------------------------------------------------- specification

\* The caller closes the streaming channel while plan steps remain: the
\* StreamingResponse stops iterating task_stream, and with it the generators
\* process_task_with_llm_stream and _execute_llm_plan_stream it drives; no
\* other coroutine runs the plan.
CloseStream(t) ==
    /\ proc[t].pc = "execute" /\ proc[t].mode = "stream"
    /\ proc[t].idx <= Len(proc[t].execution_plan)
    /\ proc' = [proc EXCEPT ![t] = [@ EXCEPT !.pc = "closed"]]
    /\ UNCHANGED << discovered_agents, llm_client, task_counter, active_tasks,
                    events, responses, requests, contexts, clock >>
    /\ UNCHANGED service_vars

Next ==
    \/ \E mode \in {"batch", "stream"} : SubmitRejected(mode)
    \/ \E mode \in {"batch", "stream"} : \E description \in Descriptions :
          SubmitTask(mode, description)
    \/ \E t \in TaskIds : AnalyzeStreamNoClient(t)
    \/ \E t \in TaskIds : AnalyzeStream(t)
    \/ \E t \in TaskIds : AnalyzeBatch(t)
    \/ \E t \in TaskIds : ExecStepStream(t)
    \/ \E t \in TaskIds : ExecStepBatch(t)
    \/ \E t \in TaskIds : FinishStream(t)
    \/ \E t \in TaskIds : FinishBatch(t)
    \/ \E t \in TaskIds : FallbackStream(t)
    \/ \E t \in TaskIds : FallbackBatch(t)
    \/ \E t \in TaskIds : RespondStream(t)
    \/ \E t \in TaskIds : RespondBatch(t)
    \/ \E t \in TaskIds : CloseStream(t)

Spec == Init /\ [][Next]_vars

\* The event loop runs every handler that can take a step: a coroutine that
\* is not waiting on the caller is resumed in the end.
LiveSpec == Init /\ [][Next]_vars /\ WF_vars(Next)

\* ------------------------------------------- the MCP client under two tasks

\* The variables the MCP client's operations leave alone.
not_mcp_vars == << task_vars, discovery_vars, envoy_vars,
       rpc_vars,
       submit_vars,
       twin_vars,
       parser_vars,
       status_vars,
       probe_vars,
       close_vars,
       pair_vars >>

\* The task handler at rest: no submission, an empty registry.
TaskIdle ==
    /\ discovered_agents = << >>
    /\ llm_client = TRUE
    /\ task_counter = 0
    /\ active_tasks = << >>
    /\ proc = [t \in TaskIds |-> IdleProc]
    /\ events = [t \in TaskIds |-> << >>]
    /\ responses = [t \in TaskIds |-> NoResponse]
    /\ requests = << >>
    /\ contexts = [t \in TaskIds |-> << >>]
    /\ clock = 0

\* The MCP client before its first use, on a host where some of the
\* configured commands cannot be spawned.
McpInit ==
    /\ active_servers = << >>
    /\ children = [name \in McpServers |-> 0]
    /\ mcp_down \in SUBSET McpServers
    /\ callers = [c \in Callers |-> IdleCaller]
    /\ mcp_log = << >>
    /\ tool_results = << >>

ToolResult(c, target, result) ==
    [caller |-> c, target |-> target, result |-> result]

\* _use_mcp_tool on a target "S:T": the server is taken from the target and
\* _execute_mcp_tool is called; the client is not used.
UseMcpToolPrefixed(c) ==
    /\ callers[c].pc = "idle" /\ callers[c].steps < MaxToolSteps
    /\ \E target \in PrefixedTargets :
          tool_results' = Append(tool_results,
              ToolResult(c, target, use_mcp_tool(target, ToolTask, {})))
    /\ callers' = [callers EXCEPT ![c].steps = @ + 1]
    /\ UNCHANGED << active_servers, children, mcp_down, mcp_log >>
    /\ UNCHANGED not_mcp_vars

\* _use_mcp_tool on a bare tool name: _infer_server_from_tool starts with
\* the first configured server.
InferServerFromTool(c) ==
    /\ callers[c].pc = "idle" /\ callers[c].steps < MaxToolSteps
    /\ \E tool_name \in BareTools :
          callers' = [callers EXCEPT ![c] =
              [@ EXCEPT !.pc = "check", !.tool_name = tool_name,
                        !.server = 1, !.found = {}]]
    /\ UNCHANGED << active_servers, children, mcp_down, mcp_log,
                    tool_results >>
    /\ UNCHANGED not_mcp_vars

\* discover_tools up to the await of start_mcp_server: the test
\* `server_name not in self.active_servers`.
DiscoverTools(c) ==
    /\ callers[c].pc = "check"
    /\ callers' = [callers EXCEPT ![c].pc =
          IF McpServerNames[callers[c].server] \in DOMAIN active_servers
          THEN "list" ELSE "spawn"]
    /\ UNCHANGED << active_servers, children, mcp_down, mcp_log,
                    tool_results >>
    /\ UNCHANGED not_mcp_vars

\* start_mcp_server: create_subprocess_exec raises for a command that cannot
\* be spawned and False is returned (discover_tools then returns []); else
\* the new child's handle is stored under the server name.
StartMcpServer(c) ==
    /\ callers[c].pc = "spawn"
    /\ LET server_name == McpServerNames[callers[c].server] IN
       IF server_name \in mcp_down
       THEN /\ callers' = [callers EXCEPT ![c] =
                              AfterServer(@, callers[c].found)]
            /\ UNCHANGED << active_servers, children >>
       ELSE /\ children' = [children EXCEPT ![server_name] = @ + 1]
            /\ active_servers' =
                  [name \in DOMAIN active_servers \cup {server_name} |->
                      IF name = server_name THEN children[server_name] + 1
                      ELSE active_servers[name]]
            /\ callers' = [callers EXCEPT ![c].pc = "list"]
    /\ UNCHANGED << mcp_down, mcp_log, tool_results >>
    /\ UNCHANGED not_mcp_vars

\* The rest of discover_tools: initialize, tools/list, the tool names; a
\* child that does not answer makes it return [].
ListTools(c) ==
    /\ callers[c].pc = "list"
    /\ LET server_name == McpServerNames[callers[c].server] IN
       \E answers \in BOOLEAN :
          /\ mcp_log' = mcp_log \o DiscoveryMessages(c, server_name, answers)
          /\ callers' = [callers EXCEPT ![c] =
                AfterServer(@, IF answers
                               THEN callers[c].found \cup {server_name}
                               ELSE callers[c].found)]
    /\ UNCHANGED << active_servers, children, mcp_down, tool_results >>
    /\ UNCHANGED not_mcp_vars

\* _use_mcp_tool once the server is inferred: _execute_mcp_tool.
UseMcpToolInferred(c) ==
    /\ callers[c].pc = "conclude"
    /\ tool_results' = Append(tool_results,
          ToolResult(c, callers[c].tool_name,
                     use_mcp_tool(callers[c].tool_name, ToolTask,
                                  callers[c].found)))
    /\ callers' = [callers EXCEPT ![c] =
          [IdleCaller EXCEPT !.steps = callers[c].steps + 1]]
    /\ UNCHANGED << active_servers, children, mcp_down, mcp_log >>
    /\ UNCHANGED not_mcp_vars

McpNext ==
    \/ \E c \in Callers : UseMcpToolPrefixed(c)
    \/ \E c \in Callers : InferServerFromTool(c)
    \/ \E c \in Callers : DiscoverTools(c)
    \/ \E c \in Callers : StartMcpServer(c)
    \/ \E c \in Callers : ListTools(c)
    \/ \E c \in Callers : UseMcpToolInferred(c)

McpSpecInit ==
    /\ TaskIdle
    /\ McpInit
    /\ DiscoveryIdle
    /\ EnvoyIdle
    /\ RpcIdle
    /\ SubmitIdle
    /\ TwinIdle
    /\ ParserIdle
    /\ StatusIdle
    /\ ProbeIdle
    /\ CloseIdle
    /\ PairIdle

McpSpec == McpSpecInit /\ [][McpNext]_vars

\* ------------------------------------------------------- discovery refreshes

not_discovery_vars ==
    << llm_client, task_counter, active_tasks, proc, events, responses,
       requests, contexts, clock, mcp_vars, envoy_vars,
       rpc_vars,
       submit_vars,
       twin_vars,
       parser_vars,
       status_vars,
       probe_vars,
       close_vars,
       pair_vars >>

\* discover_agents is entered: initialize(), one turn of
\* _periodic_discovery_refresh, or POST /admin/rediscover.
EnterDiscovery(r) ==
    /\ refresh[r] = 0 /\ cycles < MaxCycles
    /\ refresh' = [refresh EXCEPT ![r] = 1]
    /\ cycles' = cycles + 1
    /\ UNCHANGED << discovered_agents, last_entry, missed,
                    agent_capabilities >>
    /\ UNCHANGED not_discovery_vars

StartDiscovery(r) == EnterDiscovery(r) /\ UNCHANGED alone

\* One turn of the for loop of discover_agents: _discover_single_agent on
\* the next endpoint.
DiscoverSingleAgent(r) ==
    /\ refresh[r] \in 1..Len(DiscoveryEndpoints)
    /\ LET i == refresh[r]
           endpoint == DiscoveryEndpoints[i]
       IN  \E o \in ProbeOutcomes :
           IF o.answered
           THEN LET entry == AgentEntry(AgentIdOf(o.name), endpoint,
                                        DiscoveryMethods[o.probe].protocol,
                                        DiscoveryMethods[o.probe].method)
                IN  /\ discovered_agents' = RegistryPut(discovered_agents, entry)
                    /\ agent_capabilities' =
                          PutCapabilities(agent_capabilities, entry.agent_id,
                                          endpoint,
                                          DiscoveryMethods[o.probe].method)
                    /\ last_entry' = [last_entry EXCEPT ![i] = entry]
                    /\ missed' = [missed EXCEPT ![i] = FALSE]
           ELSE /\ discovered_agents' =
                      AfterFailedProbe(discovered_agents, endpoint)
                /\ missed' = [missed EXCEPT ![i] = last_entry[i] # NoEntry]
                /\ UNCHANGED << last_entry, agent_capabilities >>
    /\ refresh' = [refresh EXCEPT ![r] =
          IF @ = Len(DiscoveryEndpoints) THEN 0 ELSE @ + 1]
    /\ UNCHANGED << cycles, alone >>
    /\ UNCHANGED not_discovery_vars

not_call_vars ==
    << discovered_agents, discovery_vars, mcp_vars, envoy_vars,
       rpc_vars,
       submit_vars,
       twin_vars,
       parser_vars,
       status_vars,
       probe_vars,
       close_vars,
       pair_vars >>

\* _call_agent on an agent of the registry as discovery has left it.
CallDiscoveredAgent(i) ==
    /\ Len(requests) < MaxCalls
    /\ i \in 1..Len(discovered_agents)
    /\ LET agent_id == discovered_agents[i].agent_id
       IN  \E outcome \in AgentOutcomes(discovered_agents, agent_id) :
           LET d == call_agent(discovered_agents, agent_id, ToolTask, << >>,
                               outcome)
           IN  requests' = LogRequests(0, 0, d.requests)
    /\ UNCHANGED not_call_vars
    /\ UNCHANGED << llm_client, task_counter, active_tasks, proc, events,
                    responses, contexts, clock >>

DiscoveryNext ==
    \/ \E r \in Refreshers : StartDiscovery(r)
    \/ \E r \in Refreshers : DiscoverSingleAgent(r)
    \/ \E i \in DOMAIN discovered_agents : CallDiscoveredAgent(i)

DiscoverySpecInit ==
    /\ TaskIdle
    /\ McpIdle
    /\ DiscoveryIdle
    /\ EnvoyIdle
    /\ RpcIdle
    /\ SubmitIdle
    /\ TwinIdle
    /\ ParserIdle
    /\ StatusIdle
    /\ ProbeIdle
    /\ CloseIdle
    /\ PairIdle

DiscoverySpec == DiscoverySpecInit /\ [][DiscoveryNext]_vars

\* --------------------------------------------------- one cycle after another

\* discover_agents is entered, and it is noted whether another coroutine is
\* inside it.
StartCycle(r) ==
    /\ EnterDiscovery(r)
    /\ alone' = \A q \in Refreshers : refresh[q] = 0

CycleNext ==
    \/ \E r \in Refreshers : StartCycle(r)
    \/ \E r \in Refreshers : DiscoverSingleAgent(r)

CycleSpecInit ==
    /\ TaskIdle
    /\ McpIdle
    /\ DiscoveryIdle
    /\ EnvoyIdle
    /\ RpcIdle
    /\ SubmitIdle
    /\ TwinIdle
    /\ ParserIdle
    /\ StatusIdle
    /\ ProbeIdle
    /\ CloseIdle
    /\ PairIdle

CycleSpec == CycleSpecInit /\ [][CycleNext]_vars

\* ------------------------------------------------- the probes of one endpoint

not_probe_vars ==
    << task_vars, mcp_vars, discovery_vars, envoy_vars, rpc_vars, submit_vars,
       twin_vars, parser_vars, status_vars,
       close_vars,
       pair_vars >>

\* _discover_single_agent is called on the first endpoint, with a registry
\* an earlier cycle has left and the answers its four GETs will meet.
ProbeInit ==
    /\ probing.pc = "idle"
    /\ \E reg \in Registries, answers \in [1..Len(DiscoveryMethods) -> ProbeAnswers] :
           probing' = [pc |-> "probing", k |-> 1, answers |-> answers,
                       sent |-> << >>, before |-> reg, registry |-> reg]
    /\ UNCHANGED not_probe_vars

\* One try block of _discover_single_agent: the GET is sent and awaited,
\* then the branch stores an entry and returns, or the next probe follows;
\* after the last probe the warning is logged.
ProbeEndpoint ==
    /\ probing.pc = "probing"
    /\ LET k == probing.k
           answer == probing.answers[k]
           next == IF Stores(answer) THEN AfterStore(k) ELSE k + 1
       IN  probing' = [probing EXCEPT
               !.sent = Append(@, DiscoveryMethods[k].method),
               !.registry =
                   IF Stores(answer)
                   THEN RegistryPut(@, AgentEntry(AgentIdOf(answer.name),
                                                  DiscoveryEndpoints[1],
                                                  DiscoveryMethods[k].protocol,
                                                  DiscoveryMethods[k].method))
                   ELSE @,
               !.k = next,
               !.pc = IF next > Len(DiscoveryMethods)
                      THEN "returned" ELSE "probing"]
    /\ UNCHANGED not_probe_vars

ProbeNext == ProbeInit \/ ProbeEndpoint

ProbeSpecInit ==
    /\ TaskIdle
    /\ McpIdle
    /\ DiscoveryIdle
    /\ EnvoyIdle
    /\ RpcIdle
    /\ SubmitIdle
    /\ TwinIdle
    /\ ParserIdle
    /\ StatusIdle
    /\ ProbeIdle
    /\ CloseIdle
    /\ PairIdle

ProbeSpec == ProbeSpecInit /\ [][ProbeNext]_vars

\* ------------------------------------------------- GET /status over refreshes

not_status_vars ==
    << task_vars, mcp_vars, discovery_vars, envoy_vars, rpc_vars, submit_vars,
       twin_vars, parser_vars,
       probe_vars,
       close_vars,
       pair_vars >>

\* get_status starts its loop: discovered_agents.items() is called and the
\* iterator notes the number of keys of the dict.
GetStatus ==
    /\ status_walk.pc = "idle"
    /\ status_walk' = [status_walk EXCEPT
          !.pc = "next", !.used = Len(discovered_agents), !.pos = 1]
    /\ UNCHANGED not_status_vars

\* The for statement asks the iterator for the next item. A dict that has
\* another number of keys than when the iterator was made raises
\* RuntimeError, which nothing in get_status catches; else the loop ends
\* after the last position and the reply is sent, or the loop body gets the
\* key and the value now at the position. held notes what the registry gives
\* for the key at this moment.
NextItem ==
    /\ status_walk.pc = "next"
    /\ status_walk' =
          IF Len(discovered_agents) # status_walk.used
          THEN [status_walk EXCEPT !.pc = "failed"]
          ELSE IF status_walk.pos > Len(discovered_agents)
          THEN [status_walk EXCEPT !.pc = "replied"]
          ELSE LET item == discovered_agents[status_walk.pos]
               IN  [status_walk EXCEPT
                       !.pc = "health", !.item = item,
                       !.held = {View(item,
                                      get_agent_capabilities(item.agent_id))}]
    /\ UNCHANGED not_status_vars

\* The GET /health of the loop body has returned, or raised: the agent is
\* reported with the endpoint and protocol of the value got from the
\* iterator and, when /health answered, with get_agent_capabilities as it
\* is by now. views notes what the registry gave for the key when the item
\* was got and what it gives now.
HealthChecked ==
    /\ status_walk.pc = "health"
    /\ LET item == status_walk.item
           now == { View(discovered_agents[i],
                         get_agent_capabilities(item.agent_id)) :
                        i \in { j \in 1..Len(discovered_agents) :
                                  discovered_agents[j].agent_id
                                      = item.agent_id } }
       IN  \E answered \in BOOLEAN :
           status_walk' = [status_walk EXCEPT
               !.pc = "next", !.pos = @ + 1, !.item = NoEntry, !.held = {},
               !.report = Append(@,
                   IF answered
                   THEN [agent_id |-> item.agent_id, status |-> "online",
                         endpoint |-> item.info.endpoint,
                         protocol |-> item.info.protocol,
                         capabilities |->
                             get_agent_capabilities(item.agent_id)]
                   ELSE [agent_id |-> item.agent_id, status |-> "offline",
                         endpoint |-> item.info.endpoint,
                         protocol |-> item.info.protocol]),
               !.views = Append(@, status_walk.held \cup now)]
    /\ UNCHANGED not_status_vars

StatusNext ==
    \/ \E r \in Refreshers : StartDiscovery(r)
    \/ \E r \in Refreshers : DiscoverSingleAgent(r)
    \/ GetStatus
    \/ NextItem
    \/ HealthChecked

StatusSpecInit ==
    /\ TaskIdle
    /\ McpIdle
    /\ DiscoveryIdle
    /\ EnvoyIdle
    /\ RpcIdle
    /\ SubmitIdle
    /\ TwinIdle
    /\ ParserIdle
    /\ StatusIdle
    /\ ProbeIdle
    /\ CloseIdle
    /\ PairIdle

StatusSpec == StatusSpecInit /\ [][StatusNext]_vars

\* ------------------------------------------------- the LLM client over tasks

not_envoy_vars == << task_vars, mcp_vars, discovery_vars,
       rpc_vars,
       submit_vars,
       twin_vars,
       parser_vars,
       status_vars,
       probe_vars,
       close_vars,
       pair_vars >>

\* Probes that verify_connection can meet: it runs only while the
\* connection is not verified.
ProbesFor(verified) == IF verified THEN {Http(200)} ELSE RemoteOutcomes

\* A task reaches its LLM analysis: process_task_with_llm (batch) or
\* process_task_with_llm_stream (stream).
BeginAnalysis(mode, prompt) ==
    /\ envoy_task.phase = "idle" /\ envoy_task.n < MaxEnvoyTasks
    /\ envoy_task' = [n |-> envoy_task.n + 1,
                      phase |-> IF mode = "batch" THEN "test" ELSE "stream",
                      prompt |-> prompt]
    /\ UNCHANGED << connection_verified, conversation_history, envoy_log >>
    /\ UNCHANGED not_envoy_vars

\* send_message around one chat_completion.
SendMessage(message, kind, next_phase) ==
    \E probe \in ProbesFor(connection_verified) : \E remote \in RemoteOutcomes :
        LET messages == BuildMessages(conversation_history, message)
            c == chat_completion(connection_verified, probe, remote)
            assistant_message == c.response.choices[1].message.content
        IN  /\ connection_verified' = c.verified
            /\ conversation_history' =
                   HistoryAfterSend(conversation_history, message,
                                    assistant_message)
            /\ envoy_log' = Append(envoy_log,
                   [task |-> envoy_task.n, kind |-> kind,
                    prompt |-> message, messages |-> messages,
                    first |-> ~connection_verified, met |-> c.met,
                    raised |-> c.raised, response |-> c.response])
            /\ envoy_task' = [envoy_task EXCEPT !.phase = next_phase]

\* send_message("Hello, test connection") of process_task_with_llm
TestConnection ==
    /\ envoy_task.phase = "test"
    /\ SendMessage(TestMessage, "test", "analysis")
    /\ UNCHANGED not_envoy_vars

\* send_message(message=analysis_prompt) of process_task_with_llm
SendAnalysis ==
    /\ envoy_task.phase = "analysis"
    /\ SendMessage(envoy_task.prompt, "analysis", "idle")
    /\ UNCHANGED not_envoy_vars

\* stream_message(message=analysis_prompt) of process_task_with_llm_stream,
\* consumed to its end.
StreamAnalysis ==
    /\ envoy_task.phase = "stream"
    /\ \E probe \in ProbesFor(connection_verified) :
       \E remote \in RemoteOutcomes :
           LET message == envoy_task.prompt
               messages == BuildMessages(conversation_history, message)
               c == stream_completion(connection_verified, probe, remote)
           IN  /\ connection_verified' = c.verified
               /\ conversation_history' =
                      HistoryAfterStream(conversation_history, message, c.text)
               /\ envoy_log' = Append(envoy_log,
                      [task |-> envoy_task.n, kind |-> "stream",
                       prompt |-> message, messages |-> messages,
                       first |-> ~connection_verified])
    /\ envoy_task' = [envoy_task EXCEPT !.phase = "idle"]
    /\ UNCHANGED not_envoy_vars

EnvoyNext ==
    \/ \E mode \in {"batch", "stream"} : \E prompt \in EnvoyPrompts :
          BeginAnalysis(mode, prompt)
    \/ TestConnection
    \/ SendAnalysis
    \/ StreamAnalysis

EnvoySpecInit ==
    /\ TaskIdle
    /\ McpIdle
    /\ DiscoveryIdle
    /\ EnvoyIdle
    /\ RpcIdle
    /\ SubmitIdle
    /\ TwinIdle
    /\ ParserIdle
    /\ StatusIdle
    /\ ProbeIdle
    /\ CloseIdle
    /\ PairIdle

EnvoySpec == EnvoySpecInit /\ [][EnvoyNext]_vars

\* ------------------------------------------- the history over many messages

\* send_message with include_history: the pair is appended and the history
\* cut to its last max_history messages.
SendOnce(message) ==
    /\ Len(conversation_history) < MaxHistoryLen
    /\ conversation_history' =
          HistoryAfterSend(conversation_history, message, <<"reply">>)
    /\ UNCHANGED << connection_verified, envoy_task, envoy_log >>
    /\ UNCHANGED not_envoy_vars

\* stream_message with include_history, consumed to its end: the pair is
\* appended.
StreamOnce(message) ==
    /\ Len(conversation_history) < MaxHistoryLen
    /\ conversation_history' =
          HistoryAfterStream(conversation_history, message, <<"reply">>)
    /\ UNCHANGED << connection_verified, envoy_task, envoy_log >>
    /\ UNCHANGED not_envoy_vars

HistoryNext ==
    \/ \E message \in EnvoyPrompts : SendOnce(message)
    \/ \E message \in EnvoyPrompts : StreamOnce(message)

HistorySpecInit ==
    /\ TaskIdle
    /\ McpIdle
    /\ DiscoveryIdle
    /\ EnvoyIdle
    /\ RpcIdle
    /\ SubmitIdle
    /\ TwinIdle
    /\ ParserIdle
    /\ StatusIdle
    /\ ProbeIdle
    /\ CloseIdle
    /\ PairIdle

HistorySpec == HistorySpecInit /\ [][HistoryNext]_vars

\* ----------------------------------------- concurrent JSON-RPC on the pipes

not_rpc_vars ==
    << task_vars, mcp_down, callers, mcp_log, tool_results, discovery_vars,
       envoy_vars,
       submit_vars,
       twin_vars,
       parser_vars,
       status_vars,
       probe_vars,
       close_vars,
       pair_vars >>

\* Both servers were started by earlier discover_tools calls.
RpcInit ==
    /\ active_servers = [name \in RpcServers |-> 1]
    /\ children = [name \in RpcServers |-> 1]
    /\ mcp_down = {}
    /\ callers = [c \in Callers |-> IdleCaller]
    /\ mcp_log = << >>
    /\ tool_results = << >>

\* The ids of the response lines a child has written so far.
Answered(name) ==
    { stdout[name][i] : i \in 1..Len(stdout[name]) }
    \cup { rpc_log[i].answered : i \in
               { j \in 1..Len(rpc_log) : /\ rpc_log[j].server = name
                                         /\ rpc_log[j].outcome = "result" } }

\* send_jsonrpc_request up to stdin.drain(): the handle is looked up, the
\* id taken and the request line written, with no await in between.
WriteRequest(c, name) ==
    /\ rpc[c].pc = "idle" /\ rpc[c].calls < MaxRpcCalls
    /\ name \in DOMAIN active_servers
    /\ request_id' = get_next_request_id(request_id)
    /\ stdin' = [stdin EXCEPT ![name] =
          IF children[name] > 0 THEN Append(@, request_id') ELSE @]
    /\ rpc' = [rpc EXCEPT ![c] = [pc |-> "read", server |-> name,
                                  id |-> request_id', calls |-> @.calls + 1]]
    /\ UNCHANGED << server_tools, stdout, waiter, rpc_log >>
    /\ UNCHANGED << active_servers, children >>
    /\ UNCHANGED not_rpc_vars

\* The child answers the oldest request it has not answered: a response
\* line reaches the stream reader, which wakes the coroutine waiting on it.
ServerAnswers(name) ==
    /\ children[name] > 0
    /\ Unanswered(name, Answered(name)) # << >>
    /\ stdout' = [stdout EXCEPT ![name] =
          Append(@, Unanswered(name, Answered(name))[1])]
    /\ waiter' = [waiter EXCEPT ![name] = 0]
    /\ UNCHANGED << request_id, server_tools, rpc, stdin, rpc_log >>
    /\ UNCHANGED << active_servers, children >>
    /\ UNCHANGED not_rpc_vars

\* The child dies: its pipes close, the reader sees end of file and wakes
\* the coroutine waiting on it.  The client is not told.
ServerDies(name) ==
    /\ children[name] > 0
    /\ children' = [children EXCEPT ![name] = 0]
    /\ waiter' = [waiter EXCEPT ![name] = 0]
    /\ UNCHANGED << request_id, server_tools, rpc, stdin, stdout, rpc_log >>
    /\ UNCHANGED active_servers
    /\ UNCHANGED not_rpc_vars

\* The end of send_jsonrpc_request and what discover_tools does with it: a
\* result is returned and the tool list cached; an exception is raised to
\* discover_tools, which returns [].  Neither touches active_servers.
Finish(c, outcome, answered) ==
    /\ rpc_log' = Append(rpc_log, RpcOutcome(c, rpc[c], outcome, answered))
    /\ rpc' = [rpc EXCEPT ![c] = [@ EXCEPT !.pc = "idle"]]
    /\ server_tools' = IF outcome = "result"
                       THEN server_tools \cup {rpc[c].server}
                       ELSE server_tools

\* await process.stdout.readline(), entered or resumed: a buffered line is
\* taken whoever it answers; at end of file the empty line raises "empty
\* response"; with another coroutine already waiting on the reader asyncio
\* raises RuntimeError; else the coroutine waits.
ReadLine(c) ==
    /\ \/ rpc[c].pc = "read"
       \/ rpc[c].pc = "waiting" /\ waiter[rpc[c].server] # c
    /\ LET name == rpc[c].server
       IN  IF stdout[name] # << >>
           THEN /\ Finish(c, "result", stdout[name][1])
                /\ stdout' = [stdout EXCEPT ![name] = Tail(@)]
                /\ UNCHANGED waiter
           ELSE IF children[name] = 0
           THEN /\ Finish(c, "empty_response", 0)
                /\ UNCHANGED << stdout, waiter >>
           ELSE IF waiter[name] # 0
           THEN /\ Finish(c, "runtime_error", 0)
                /\ UNCHANGED << stdout, waiter >>
           ELSE /\ waiter' = [waiter EXCEPT ![name] = c]
                /\ rpc' = [rpc EXCEPT ![c] = [@ EXCEPT !.pc = "waiting"]]
                /\ UNCHANGED << stdout, rpc_log, server_tools >>
    /\ UNCHANGED << request_id, stdin >>
    /\ UNCHANGED << active_servers, children >>
    /\ UNCHANGED not_rpc_vars

RpcNext ==
    \/ \E c \in Callers : \E name \in RpcServers : WriteRequest(c, name)
    \/ \E name \in RpcServers : ServerAnswers(name)
    \/ \E name \in RpcServers : ServerDies(name)
    \/ \E c \in Callers : ReadLine(c)

RpcSpecInit ==
    /\ TaskIdle
    /\ RpcInit
    /\ DiscoveryIdle
    /\ EnvoyIdle
    /\ RpcIdle
    /\ SubmitIdle
    /\ TwinIdle
    /\ ParserIdle
    /\ StatusIdle
    /\ ProbeIdle
    /\ CloseIdle
    /\ PairIdle

RpcSpec == RpcSpecInit /\ [][RpcNext]_vars

\* --------------------------------------------- close_server among requests

not_close_vars ==
    << task_vars, mcp_down, callers, mcp_log, tool_results, discovery_vars,
       envoy_vars, submit_vars, twin_vars, parser_vars, status_vars,
       probe_vars,
       pair_vars >>

\* close_server up to `await process.wait()`: a server without handle is
\* left alone; a child that has exited makes terminate() and wait() return
\* at once and the finally block follows without a suspension; else the
\* signal is sent and the coroutine waits for the child to exit.
CloseServer(k, name) ==
    /\ closing[k].pc = "idle"
    /\ IF name \notin DOMAIN active_servers
       THEN /\ closing' = [closing EXCEPT ![k] =
                              [pc |-> "returned", server |-> name]]
            /\ UNCHANGED << active_servers, server_tools >>
       ELSE IF children[name] = 0
       THEN /\ closing' = [closing EXCEPT ![k] =
                              [pc |-> "returned", server |-> name]]
            /\ active_servers' = DropHandle(active_servers, name)
            /\ server_tools' = server_tools \ {name}
       ELSE /\ closing' = [closing EXCEPT ![k] =
                              [pc |-> "wait", server |-> name]]
            /\ UNCHANGED << active_servers, server_tools >>
    /\ UNCHANGED << children, request_id, rpc, stdin, stdout, waiter,
                    rpc_log >>
    /\ UNCHANGED not_close_vars

\* The finally block of close_server once the child has exited:
\* `del self.active_servers[server_name]` raises KeyError when the key is
\* gone, and the exception leaves close_server; else the handle and the
\* cached tool list are deleted.
CloseFinally(k) ==
    /\ closing[k].pc = "wait"
    /\ children[closing[k].server] = 0
    /\ LET name == closing[k].server
       IN  IF name \in DOMAIN active_servers
           THEN /\ closing' = [closing EXCEPT ![k].pc = "returned"]
                /\ active_servers' = DropHandle(active_servers, name)
                /\ server_tools' = server_tools \ {name}
           ELSE /\ closing' = [closing EXCEPT ![k].pc = "raised"]
                /\ UNCHANGED << active_servers, server_tools >>
    /\ UNCHANGED << children, request_id, rpc, stdin, stdout, waiter,
                    rpc_log >>
    /\ UNCHANGED not_close_vars

CloseNext ==
    \/ \E c \in Callers : \E name \in RpcServers : WriteRequest(c, name)
    \/ \E name \in RpcServers : ServerAnswers(name)
    \/ \E name \in RpcServers : ServerDies(name)
    \/ \E c \in Callers : ReadLine(c)
    \/ \E k \in Closers : \E name \in RpcServers : CloseServer(k, name)
    \/ \E k \in Closers : CloseFinally(k)

CloseSpecInit ==
    /\ TaskIdle
    /\ RpcInit
    /\ DiscoveryIdle
    /\ EnvoyIdle
    /\ RpcIdle
    /\ SubmitIdle
    /\ TwinIdle
    /\ ParserIdle
    /\ StatusIdle
    /\ ProbeIdle
    /\ CloseIdle
    /\ PairIdle

CloseSpec == CloseSpecInit /\ [][CloseNext]_vars

\* ------------------------------------------------- concurrent submissions

not_submit_vars ==
    << discovered_agents, llm_client, proc, events, responses, requests,
       contexts, mcp_vars, discovery_vars, envoy_vars, rpc_vars,
       twin_vars,
       parser_vars,
       status_vars,
       probe_vars,
       close_vars,
       pair_vars >>

\* submit_task from its first statement to the statement that stores the
\* task: the id is read and the counter incremented, an empty description
\* is rejected, else the record is stored.  No await lies in between, so
\* no other handler runs inside it.
Submit(mode, description) ==
    /\ Len(submissions) < MaxSubmissions
    /\ LET task_id == task_counter
           accepted == ~Falsy(description)
       IN  /\ task_counter' = NextTaskCounter(task_counter)
           /\ active_tasks' =
                  IF accepted
                  THEN [t \in DOMAIN active_tasks \cup {task_id} |->
                           IF t = task_id
                           THEN NewTask(task_id, description, clock)
                           ELSE active_tasks[t]]
                  ELSE active_tasks
           /\ submissions' = Append(submissions,
                  [id |-> task_id, mode |-> mode, accepted |-> accepted,
                   fresh |-> task_id \notin DOMAIN active_tasks])
    /\ clock' = clock + 1
    /\ UNCHANGED not_submit_vars

\* The processing of an accepted task, batch or streaming, comes to the
\* statements that mark it completed, while other submissions arrive.
CompleteTask(t) ==
    /\ t \in DOMAIN active_tasks
    /\ active_tasks[t].status = "processing"
    /\ active_tasks' = [active_tasks EXCEPT ![t] = MarkCompleted(clock) @@ @]
    /\ clock' = clock + 1
    /\ UNCHANGED << task_counter, submissions >>
    /\ UNCHANGED not_submit_vars

SubmitNext ==
    \/ \E mode \in {"batch", "stream"} : \E description \in Descriptions :
          Submit(mode, description)
    \/ \E t \in 0..(MaxSubmissions - 1) : CompleteTask(t)

SubmitSpecInit ==
    /\ TaskIdle
    /\ McpIdle
    /\ DiscoveryIdle
    /\ EnvoyIdle
    /\ RpcIdle
    /\ SubmitIdle
    /\ TwinIdle
    /\ ParserIdle
    /\ StatusIdle
    /\ ProbeIdle
    /\ CloseIdle
    /\ PairIdle

SubmitSpec == SubmitSpecInit /\ [][SubmitNext]_vars

\* ------------------------------------- one plan, two dependency assignments

not_twin_vars ==
    << llm_client, task_counter, active_tasks, proc, events, responses,
       requests, contexts, clock, mcp_vars, discovery_vars, envoy_vars,
       rpc_vars, submit_vars,
       parser_vars,
       status_vars,
       probe_vars,
       close_vars,
       pair_vars >>

\* Two tasks are about to execute plans that are equal except for the
\* dependencies of their steps: the first has none.
TwinInit ==
    /\ discovered_agents \in Registries
    /\ \E mode \in {"batch", "stream"} : \E plan \in ExecutionPlans :
       \E deps \in [1..Len(plan) -> DependencyLists] :
           twin = [mode |-> mode, plain |-> plan,
                   other |-> WithDependencies(plan, deps), idx |-> 1,
                   plain_run |-> NoRun, other_run |-> NoRun]

\* Both executors run their next step; the agents and MCP servers behave
\* the same way towards both.
TwinStep ==
    /\ twin.idx <= Len(twin.plain)
    /\ LET f == StepFields(twin.plain[twin.idx])
       IN  \E oc \in StepOutcomes(discovered_agents, f.action, f.target) :
               twin' = [twin EXCEPT
                   !.idx = @ + 1,
                   !.plain_run = RunStep(twin.mode, discovered_agents, @,
                                         twin.plain[twin.idx], oc),
                   !.other_run = RunStep(twin.mode, discovered_agents, @,
                                         twin.other[twin.idx], oc)]
    /\ UNCHANGED discovered_agents
    /\ UNCHANGED not_twin_vars

TwinNext == TwinStep

TwinSpecInit ==
    /\ llm_client = TRUE
    /\ task_counter = 0
    /\ active_tasks = << >>
    /\ proc = [t \in TaskIds |-> IdleProc]
    /\ events = [t \in TaskIds |-> << >>]
    /\ responses = [t \in TaskIds |-> NoResponse]
    /\ requests = << >>
    /\ contexts = [t \in TaskIds |-> << >>]
    /\ clock = 0
    /\ TwinInit
    /\ McpIdle
    /\ DiscoveryIdle
    /\ EnvoyIdle
    /\ RpcIdle
    /\ SubmitIdle
    /\ ParserIdle
    /\ StatusIdle
    /\ ProbeIdle
    /\ CloseIdle
    /\ PairIdle

TwinSpec == TwinSpecInit /\ [][TwinNext]_vars

\* ------------------------------------- the two executors on the same plan

not_pair_vars ==
    << llm_client, task_counter, active_tasks, proc, events, responses,
       requests, contexts, clock, mcp_vars, discovery_vars, envoy_vars,
       rpc_vars, submit_vars, twin_vars, parser_vars, status_vars,
       probe_vars, close_vars >>

\* One plan is about to be executed twice, by _execute_llm_plan and by
\* _execute_llm_plan_stream, against the same registry.
PairInit ==
    /\ discovered_agents \in Registries
    /\ \E plan \in ExecutionPlans :
           pair = [plan |-> plan, idx |-> 1, batch |-> NoRun, stream |-> NoRun]

\* Both executors run their next step; the agents and MCP servers behave
\* the same way towards both.
PairStep ==
    /\ pair.idx <= Len(pair.plan)
    /\ LET f == StepFields(pair.plan[pair.idx])
       IN  \E oc \in StepOutcomes(discovered_agents, f.action, f.target) :
               pair' = [pair EXCEPT
                   !.idx = @ + 1,
                   !.batch = RunStep("batch", discovered_agents, @,
                                     pair.plan[pair.idx], oc),
                   !.stream = RunStep("stream", discovered_agents, @,
                                      pair.plan[pair.idx], oc)]
    /\ UNCHANGED discovered_agents
    /\ UNCHANGED not_pair_vars

PairNext == PairStep

PairSpecInit ==
    /\ llm_client = TRUE
    /\ task_counter = 0
    /\ active_tasks = << >>
    /\ proc = [t \in TaskIds |-> IdleProc]
    /\ events = [t \in TaskIds |-> << >>]
    /\ responses = [t \in TaskIds |-> NoResponse]
    /\ requests = << >>
    /\ contexts = [t \in TaskIds |-> << >>]
    /\ clock = 0
    /\ PairInit
    /\ McpIdle
    /\ DiscoveryIdle
    /\ EnvoyIdle
    /\ RpcIdle
    /\ SubmitIdle
    /\ TwinIdle
    /\ ParserIdle
    /\ StatusIdle
    /\ ProbeIdle
    /\ CloseIdle

PairSpec == PairSpecInit /\ [][PairNext]_vars

\* ------------------------------------------------- several tasks in flight

\* The ids of the tasks whose handlers run side by side.
FlightIds == {0, 1}

\* What the LLM answers to the analysis prompts of these tasks: prose with
\* no JSON in it, or one of two plans that share no step.
FlightPlans ==
    { << PlanStep(<<"agent_call", Str(<<"researcher">>)>>, 1, "seq"),
         PlanStep(<<"tool_use", Str(<<"fs", ":", "read_file">>)>>, 2, "seq") >>,
      << PlanStep(<<"coordination", Str(<<"merge">>)>>, 1, "seq"),
         PlanStep(<<"agent_call", Str(<<"ui_designer_agent">>)>>, 2, "seq") >> }

FlightReplies ==
    { [form |-> "text"] }
    \cup { [form |-> "json",
            doc |-> PyDict([analysis |-> "a",
                            execution_strategy |-> "hybrid",
                            execution_plan |-> p])] : p \in FlightPlans }

\* Two submissions were accepted one after the other, and neither handler
\* has come back from its first await yet.
FlightInit ==
    /\ discovered_agents \in { reg \in Registries : Len(reg) = 2 }
    /\ llm_client \in BOOLEAN
    /\ task_counter = 2
    /\ clock = 2
    /\ requests = << >>
    /\ responses = [t \in FlightIds |-> NoResponse]
    /\ contexts = [t \in FlightIds |-> << >>]
    /\ \E mode \in [FlightIds -> {"batch", "stream"}] :
       LET description(t) == IF t = 0 THEN Str(<<"Analyze", "market">>)
                             ELSE Str(<<"Design", "UI">>)
       IN  /\ active_tasks = [t \in FlightIds |-> NewTask(t, description(t), t)]
           /\ proc = [t \in FlightIds |->
                        [IdleProc EXCEPT !.pc = "analyze", !.mode = mode[t],
                                         !.description = description(t)]]
           /\ events = [t \in FlightIds |->
                          IF mode[t] = "stream"
                          THEN << [event |-> "task_started", task_id |-> t,
                                   description |-> description(t)] >>
                          ELSE << >>]
           /\ submissions = [t \in 1..2 |->
                                [id |-> t - 1, mode |-> mode[t - 1],
                                 accepted |-> TRUE, fresh |-> TRUE]]

\* One more submission arrives while the two handlers run.
Arrive(mode, description) ==
    /\ task_counter = 2
    /\ Submit(mode, description)

\* The event loop resumes one of the handlers.
FlightNext ==
    \/ \E mode \in {"batch", "stream"} : \E description \in Descriptions :
          Arrive(mode, description)
    \/ \E t \in FlightIds : AnalyzeStreamNoClient(t)
    \/ \E t \in FlightIds : AnalyzeStreamOn(t, FlightReplies)
    \/ \E t \in FlightIds : AnalyzeBatchOn(t, FlightReplies)
    \/ \E t \in FlightIds : ExecStepStream(t)
    \/ \E t \in FlightIds : ExecStepBatch(t)
    \/ \E t \in FlightIds : FinishStream(t)
    \/ \E t \in FlightIds : FinishBatch(t)
    \/ \E t \in FlightIds : FallbackStream(t)
    \/ \E t \in FlightIds : FallbackBatch(t)
    \/ \E t \in FlightIds : RespondStream(t)
    \/ \E t \in FlightIds : RespondBatch(t)
    \/ \E t \in FlightIds : CloseStream(t)

FlightSpecInit ==
    /\ FlightInit
    /\ McpIdle
    /\ DiscoveryIdle
    /\ EnvoyIdle
    /\ RpcIdle
    /\ TwinIdle
    /\ ParserIdle
    /\ StatusIdle
    /\ ProbeIdle
    /\ CloseIdle
    /\ PairIdle

FlightSpec == FlightSpecInit /\ [][FlightNext]_vars

\* ------------------------------------------------- the decision parser alone

not_parser_vars ==
    << task_vars, mcp_vars, discovery_vars, envoy_vars, rpc_vars,
       submit_vars, twin_vars,
       status_vars,
       probe_vars,
       close_vars,
       pair_vars >>

\* parse_decision_response is about to be called on a text.
ParserInit == \E text \in ParserInputs : parser = [pc |-> "call", input |-> text]

\* parse_decision_response
ParseDecisionResponse ==
    /\ parser.pc = "call"
    /\ parser' = [pc |-> "returned", input |-> parser.input,
                  output |-> parse_decision_response(parser.input)]
    /\ UNCHANGED not_parser_vars

ParserNext == ParseDecisionResponse

ParserSpecInit ==
    /\ TaskIdle
    /\ McpIdle
    /\ DiscoveryIdle
    /\ EnvoyIdle
    /\ RpcIdle
    /\ SubmitIdle
    /\ TwinIdle
    /\ ParserInit
    /\ StatusIdle
    /\ ProbeIdle
    /\ CloseIdle
    /\ PairIdle

ParserSpec == ParserSpecInit /\ [][ParserNext]_vars

\* ------------------------------------------------------------------ claims

StreamDone(t) == proc[t].mode = "stream" /\ proc[t].pc = "done"

BatchDone(t) == proc[t].mode = "batch" /\ proc[t].pc = "done"

EventName(e) == Get(e, "event", "")

IsTaskCompleted(e) == EventName(e) = "task_completed"

\* The plan compiler ran and could not produce a plan.
CompilationFailed(t) ==
    /\ llm_client
    /\ proc[t].pc \in {"fallback", "respond", "done"}
    /\ ~proc[t].decoding.ok

\* A step ended in an error: its handler raised, or returned an error or
\* success = False.
ResultFailed(result) ==
    "error" \in DOMAIN result \/ ~Get(result, "success", TRUE)

RecordFailed(r) ==
    "error" \in DOMAIN r \/ ResultFailed(Get(r, "result", EmptyDict))

\* C1: every accepted streaming submission ends its event stream with
\* task_completed, sent exactly once, whatever the LLM returned and whatever
\* steps failed or fell back.
C1_StreamEndsWithTaskCompleted ==
    \A t \in TaskIds :
        StreamDone(t) =>
            /\ IsTaskCompleted(Last(events[t]))
            /\ CountIf(events[t], IsTaskCompleted) = 1

\* The plan of task t is valid by the decision schema: it has an
\* execution_plan whose steps name a known action and a string target.
ValidStep(step) ==
    /\ Get(step, "action", "unknown") \in {"agent_call", "tool_use", "coordination"}
    /\ Hashable(Get(step, "target", Str(<< >>)))

ValidPlan(t) ==
    /\ proc[t].decoding.ok
    /\ "execution_plan" \in DOMAIN proc[t].llm_decision
    /\ \A k \in 1..Len(proc[t].execution_plan) :
           ValidStep(proc[t].execution_plan[k])

\* The events the spec expects of one step, each by its name and its key.
ExpectedStepEvents(step) ==
    LET n == Get(step, "step", 0)
        started == [event |-> "step_started", step_number |-> n]
        completed == [event |-> "step_completed", step_number |-> n]
    IN  CASE step.action = "agent_call" ->
                << started,
                   [event |-> "agent_call_started", agent_id |-> step.target],
                   [event |-> "agent_call_completed", agent_id |-> step.target] >>
          [] step.action = "tool_use" ->
                << started, [event |-> "mcp_tool_used", tool |-> step.target],
                   completed >>
          [] OTHER -> << started, completed >>

RECURSIVE ExpectedPlanEvents(_)
ExpectedPlanEvents(plan) ==
    IF plan = << >> THEN << >>
    ELSE ExpectedStepEvents(Head(plan)) \o ExpectedPlanEvents(Tail(plan))

ExpectedStream(plan) ==
    << [event |-> "task_started"], [event |-> "llm_analysis_started"],
       [event |-> "llm_analysis_completed"], [event |-> "llm_decision_made"],
       [event |-> "execution_started"] >>
    \o ExpectedPlanEvents(plan)
    \o << [event |-> "execution_completed"], [event |-> "task_completed"] >>

EventMatches(e, x) == \A f \in DOMAIN x : f \in DOMAIN e /\ e[f] = x[f]

NotProgress(e) == EventName(e) # "llm_analysis_progress"

\* C2: a streaming submission whose reply decodes to a valid plan emits
\* task_started, llm_analysis_started, any number of llm_analysis_progress,
\* llm_analysis_completed, llm_decision_made, execution_started, then per
\* step in plan order step_started and the events of its action kind
\* (agent_call_started, agent_call_completed; mcp_tool_used, step_completed;
\* step_completed), then execution_completed and task_completed.
C2_StreamEventOrder ==
    \A t \in TaskIds :
        (StreamDone(t) /\ ValidPlan(t)) =>
            LET seen == SelectSeq(events[t], NotProgress)
                expected == ExpectedStream(proc[t].execution_plan)
            IN  /\ Len(seen) = Len(expected)
                /\ \A i \in 1..Len(seen) : EventMatches(seen[i], expected[i])
                /\ \A i \in 1..Len(events[t]) :
                       ~NotProgress(events[t][i]) =>
                           /\ i > 1
                           /\ EventName(events[t][i - 1]) \in
                                 {"llm_analysis_started", "llm_analysis_progress"}

\* A finished stream of a two-step plan: an agent call, then a tool use.
C2_Witness ==
    \E t \in TaskIds :
        /\ StreamDone(t) /\ ValidPlan(t)
        /\ Len(proc[t].execution_plan) = 2
        /\ proc[t].execution_plan[1].action = "agent_call"
        /\ proc[t].execution_plan[2].action = "tool_use"
        /\ \E i \in 1..Len(events[t]) : ~NotProgress(events[t][i])

\* C3: when a streamed plan of n steps decodes and all its steps succeed,
\* task_completed carries total_steps = n, successful_steps = n,
\* failed_steps = 0, and final_result.execution_strategy is the plan's.
C3_TaskCompletedTotals ==
    \A t \in TaskIds :
        (/\ StreamDone(t) /\ proc[t].decoding.ok
         /\ \A k \in 1..Len(proc[t].execution_results) :
                ~RecordFailed(proc[t].execution_results[k])) =>
            LET e == Last(events[t])
                n == Len(proc[t].execution_plan)
            IN  /\ IsTaskCompleted(e)
                /\ e.total_steps = n
                /\ e.successful_steps = n
                /\ e.failed_steps = 0
                /\ Get(e.final_result, "execution_strategy", "none")
                       = proc[t].llm_decision.execution_strategy

\* Record k of the results is the record of step k of the plan.
RecordOfStep(r, step) ==
    /\ r.step = Get(step, "step", 0)
    /\ r.action = Get(step, "action", "unknown")
    /\ r.target = Get(step, "target", Str(<< >>))

\* C4: a failing step never aborts the plan: on both paths the executor
\* attempts the steps one after the other in plan order, whatever the
\* earlier ones returned or raised, and ends with exactly n records.
C4_AllStepsAttempted ==
    \A t \in TaskIds :
        (proc[t].decoding.ok /\ proc[t].pc \in {"execute", "respond", "done"}) =>
            LET p == proc[t]
                n == Len(p.execution_plan)
            IN  /\ p.idx \in 1..(n + 1)
                /\ Len(p.execution_results) = p.idx - 1
                /\ Len(contexts[t]) = p.idx - 1
                /\ p.pc # "execute" => Len(p.execution_results) = n
                /\ \A k \in 1..Len(p.execution_results) :
                       RecordOfStep(p.execution_results[k], p.execution_plan[k])

\* A finished two-step plan whose first step raised and whose second step
\* was attempted all the same.
C4_Witness ==
    \E t \in TaskIds :
          /\ proc[t].pc = "done" /\ proc[t].decoding.ok
          /\ Len(proc[t].execution_plan) = 2
          /\ Len(proc[t].execution_results) = 2
          /\ RecordFailed(proc[t].execution_results[1])
          /\ "error" \in DOMAIN proc[t].execution_results[1]

\* The requests task t has sent to agents.
RequestsOf(t) ==
    LET Mine(r) == r.task = t IN SelectSeq(requests, Mine)

\* previous_results as the posted request carries it: in the data part of
\* an A2A message, in the context of a legacy task.
SentContext(request) ==
    IF request.path = "/tasks/send"
    THEN request.json.params.message.parts[2].data
    ELSE request.json.context

SentDescription(request) ==
    IF request.path = "/tasks/send"
    THEN request.json.params.message.parts[1].text
    ELSE request.json.description

\* The execution_strategy the client is told: result.execution_strategy of
\* the JSON reply, final_result.execution_strategy of task_completed.
ReportedStrategy(t) ==
    IF proc[t].mode = "batch"
    THEN Get(responses[t].result, "execution_strategy", "none")
    ELSE Get(Get(Last(events[t]), "final_result", EmptyDict),
             "execution_strategy", "none")

\* C5: when plan compilation fails and the registry is not empty, the
\* fallback, on the batch and on the streaming path alike, sends exactly one
\* agent call, to the first agent of the registry in discovery order, with
\* the raw description as the task and empty previous_results, and the
\* strategy reported is "fallback".
C5_FallbackCallsFirstAgent ==
    \A t \in TaskIds :
        (/\ proc[t].pc = "done" /\ CompilationFailed(t)
         /\ discovered_agents # << >>) =>
            LET sent == RequestsOf(t) IN
            /\ Len(sent) = 1
            /\ sent[1].request.endpoint = discovered_agents[1].info.endpoint
            /\ SentDescription(sent[1].request) = proc[t].description
            /\ SentContext(sent[1].request).previous_results = << >>
            /\ ReportedStrategy(t) = "fallback"

\* C6: when plan compilation fails and the registry is empty, the batch
\* reply reports status "failed", the task record is marked failed, and no
\* agent is called.
C6_EmptyRegistryFails ==
    \A t \in TaskIds :
        (BatchDone(t) /\ CompilationFailed(t) /\ discovered_agents = << >>) =>
            /\ responses[t].status = "failed"
            /\ active_tasks[t].status = "failed"
            /\ RequestsOf(t) = << >>

\* C7: a reply that decodes to something without an execution_plan field is
\* a parse error and goes to the fallback; it is never taken for a plan and
\* run to completion with zero steps.
C7_MissingPlanIsParseError ==
    \A t \in TaskIds :
        proc[t].decoding.ok => "execution_plan" \in DOMAIN proc[t].llm_decision

IsFailedStepCompleted(e) ==
    /\ EventName(e) = "step_completed"
    /\ ~Get(e, "success", TRUE)
    /\ "error" \in DOMAIN e

\* C8: on the streaming path every step that ended in an error is surfaced
\* as a step_completed event with success = false and an error field.
C8_FailedStepsSurfaced ==
    \A t \in TaskIds :
        (proc[t].mode = "stream" /\ proc[t].decoding.ok) =>
            CountIf(events[t], IsFailedStepCompleted)
                = CountIf(proc[t].execution_results, RecordFailed)

\* C9: on the batch path a step record carries result or else a top-level
\* error, and it carries error exactly when the step failed.
C9_ErrorFieldMarksFailure ==
    \A t \in TaskIds :
        (proc[t].mode = "batch" /\ proc[t].decoding.ok) =>
            \A k \in 1..Len(proc[t].execution_results) :
                LET r == proc[t].execution_results[k] IN
                /\ ("result" \in DOMAIN r) # ("error" \in DOMAIN r)
                /\ ("error" \in DOMAIN r) <=> RecordFailed(r)

\* The records of the steps before step k.
RecordsBefore(t, k) == SubSeq(proc[t].execution_results, 1, k - 1)

StepAction(t, k) == Get(proc[t].execution_plan[k], "action", "unknown")

TargetServer(target) == SplitColon(target)[1]

TargetTool(target) == SplitColon(target)[2]

IsToolsCall(m, server, tool) ==
    /\ m.method = "tools/call"
    /\ Str(<<m.server>>) = server
    /\ Get(m.params, "name", Str(<< >>)) = tool

\* C11: for every tool_use step whose target is "S:T" a tools/call request
\* with name = T is sent to MCP server S, and to no other server.
C11_ToolsCallGoesToNamedServer ==
    \A i \in 1..Len(tool_results) :
        LET r == tool_results[i] IN
        Contains(r.target, ":") =>
            /\ \E j \in 1..Len(mcp_log) :
                   /\ mcp_log[j].caller = r.caller
                   /\ IsToolsCall(mcp_log[j], TargetServer(r.target),
                                  TargetTool(r.target))
            /\ \A j \in 1..Len(mcp_log) :
                   (mcp_log[j].caller = r.caller
                        /\ mcp_log[j].method = "tools/call") =>
                       Str(<<mcp_log[j].server>>) = TargetServer(r.target)

\* C12: for an MCP server whose spawn fails, tool discovery finds no tool and
\* no process handle is registered, and every step that targets the server
\* is recorded as failed with an error, never as successful.
C12_DownServerFailsSteps ==
    /\ \A name \in mcp_down :
           /\ name \notin DOMAIN active_servers
           /\ children[name] = 0
           /\ \A c \in Callers : name \notin callers[c].found
    /\ \A i \in 1..Len(tool_results) :
           LET r == tool_results[i] IN
           (/\ Contains(r.target, ":")
            /\ \E name \in mcp_down : TargetServer(r.target) = Str(<<name>>)) =>
               /\ ~Get(r.result, "success", TRUE)
               /\ "error" \in DOMAIN r.result

\* C20: under any interleaving of concurrent tool discoveries and tool
\* calls there is at most one live child process per MCP server name: no
\* child is spawned for a name that has a live one, and every live child is
\* the one the client's handle names.
C20_OneChildPerServer ==
    \A name \in McpServers :
        /\ children[name] <= 1
        /\ children[name] > 0 =>
               /\ name \in DOMAIN active_servers
               /\ active_servers[name] = children[name]

\* The entry the registry holds under an agent id, in a set: empty when
\* there is none.
RegistryEntriesOf(agent_id) ==
    { discovered_agents[i] : i \in
          { j \in 1..Len(discovered_agents) :
                discovered_agents[j].agent_id = agent_id } }

\* C13 as stated: once an endpoint has been discovered, the registry holds
\* the entry stored for it, unchanged, however many later probes of that
\* endpoint fail.
C13_EntryKeptUnchanged ==
    \A i \in 1..Len(DiscoveryEndpoints) :
        missed[i] =>
            RegistryEntriesOf(last_entry[i].agent_id) = {last_entry[i]}

\* C13, amended: a failed probe of an endpoint removes nothing. After an
\* endpoint that was discovered has failed its probes, the registry still
\* holds an entry under the agent id it was discovered with, and that entry
\* is the one stored for the endpoint unless another endpoint has answered
\* with the same agent id and overwritten it.
C13_EntryKeptUnlessOverwritten ==
    \A i \in 1..Len(DiscoveryEndpoints) :
        missed[i] =>
            \E e \in RegistryEntriesOf(last_entry[i].agent_id) :
                \/ e = last_entry[i]
                \/ e.info.endpoint # DiscoveryEndpoints[i]

\* An endpoint discovered in one cycle has failed its probes in a later
\* cycle that has run to its end, and its entry is still registered.
C13_Witness ==
    /\ cycles = MaxCycles
    /\ \A r \in Refreshers : refresh[r] = 0
    /\ \E i \in 1..Len(DiscoveryEndpoints) :
           /\ missed[i]
           /\ RegistryEntriesOf(last_entry[i].agent_id) = {last_entry[i]}

\* The protocol tags the registry holds for an endpoint.
TagsOf(endpoint) ==
    { discovered_agents[i].info.protocol : i \in
          { j \in 1..Len(discovered_agents) :
                discovered_agents[j].info.endpoint = endpoint } }

\* C14: every task request that is sent has the shape the protocol tag of
\* the called agent dictates: POST /tasks/send to an agent tagged a2a,
\* POST /task to an agent tagged legacy, and no task request at all to an
\* agent tagged unknown.
C14_CallShapeFollowsProtocol ==
    [][\A k \in (Len(requests) + 1)..Len(requests') :
           LET q == requests'[k].request
           IN  \/ q.path = "/tasks/send" /\ "a2a" \in TagsOf(q.endpoint)
               \/ q.path = "/task" /\ "legacy" \in TagsOf(q.endpoint)]_vars

\* C15: in every state and for every task record, completed_at is set
\* exactly when the status is completed or failed, and it is then no
\* earlier than created_at.
C15_CompletedAtIffTerminal ==
    \A t \in DOMAIN active_tasks :
        LET task == active_tasks[t]
        IN  /\ ("completed_at" \in DOMAIN task)
                   <=> (task.status \in {"completed", "failed"})
            /\ "completed_at" \in DOMAIN task =>
                   task.completed_at >= task.created_at

\* A task has been answered after it was marked completed, later than it
\* was created.
C15_Witness ==
    \E t \in DOMAIN active_tasks :
        /\ active_tasks[t].status = "completed"
        /\ active_tasks[t].completed_at > active_tasks[t].created_at
        /\ proc[t].pc = "done"

\* The step numbers of the step records on a task, in the order the
\* records were appended (the llm_analysis entry is not a step record).
StepNumbersOf(t) ==
    LET IsStepRecord(e) == e.step[1] = "execution_step"
        records == SelectSeq(active_tasks[t].steps, IsStepRecord)
    IN  [i \in 1..Len(records) |-> records[i].step[2]]

\* The step numbers of the step_started events a caller has been sent.
StartedNumbersOf(t) ==
    LET IsStarted(e) == e.event = "step_started"
        started == SelectSeq(events[t], IsStarted)
    IN  [i \in 1..Len(started) |-> started[i].step_number]

\* C16: on every task the step records carry the numbers 1, 2, ... in
\* order, none above the number of plan steps, and the step events reach
\* the caller in strictly increasing step_number order.
C16_StepNumbersContiguous ==
    \A t \in DOMAIN active_tasks :
        /\ \A i \in 1..Len(StepNumbersOf(t)) :
               /\ StepNumbersOf(t)[i] = i
               /\ i <= Len(proc[t].execution_plan)
        /\ \A i \in 1..Len(StartedNumbersOf(t)) : \A j \in 1..(i - 1) :
               StartedNumbersOf(t)[j] < StartedNumbersOf(t)[i]

\* C17: once the caller has closed the streaming channel of an executing
\* task and the handler has come to rest, every plan step has its record on
\* the task and the task has a terminal status.
C17_ClosedStreamRunsToCompletion ==
    \A t \in DOMAIN active_tasks :
        proc[t].pc = "closed" =>
            /\ Len(StepNumbersOf(t)) = Len(proc[t].execution_plan)
            /\ active_tasks[t].status \in {"completed", "failed"}

\* The completions asked of chat_completion.
CompletionCalls ==
    { i \in 1..Len(envoy_log) : envoy_log[i].kind \in {"test", "analysis"} }

\* The remote failures C18 names, and the error field it gives each.
IsNamedFailure(met) ==
    \/ met.kind = "timeout"
    \/ met.kind = "http" /\ (met.code < 200 \/ met.code > 299)

NamedError(met) ==
    CASE met.kind = "timeout" -> <<"timeout">>
      [] met.code = 401 -> <<"authentication_failed">>
      [] met.code = 429 -> <<"rate_limit_exceeded">>
      [] met.code >= 500 -> <<"server_error">>
      [] OTHER -> <<"http_error", met.code>>

\* C18: no completion call raises, and a call that met a remote failure,
\* the first call included, returns a response whose error field is
\* authentication_failed for 401, rate_limit_exceeded for 429, server_error
\* for 5xx, timeout for a timeout, http_error_<code> for another non-2xx
\* status.
C18_ErrorFieldNamesFailure ==
    \A i \in CompletionCalls :
        LET c == envoy_log[i]
        IN  /\ ~c.raised
            /\ IsNamedFailure(c.met) =>
                   /\ "error" \in DOMAIN c.response
                   /\ c.response.error = NamedError(c.met)

\* The requests sent for the analysis of a task.
AnalysisCalls ==
    { i \in 1..Len(envoy_log) : envoy_log[i].kind \in {"analysis", "stream"} }

\* C19: the messages sent for the analysis of a task depend on the prompt
\* of that task only: two analyses of the same prompt send the same
\* messages, whatever was submitted before either.
C19_MessagesDependOnPromptOnly ==
    \A i \in AnalysisCalls : \A j \in AnalysisCalls :
        envoy_log[i].prompt = envoy_log[j].prompt =>
            envoy_log[i].messages = envoy_log[j].messages

\* C21: at most one request per MCP server is outstanding, written to its
\* stdin and not answered yet, at any time.
C21_OneOutstandingRequestPerServer ==
    \A name \in RpcServers : Len(Unanswered(name, Answered(name))) <= 1

\* C22: request ids reach a server's stdin in strictly increasing order,
\* and every caller that is handed a response is handed the line that
\* answers its own request.
C22_ResponseAnswersOwnRequest ==
    /\ \A name \in RpcServers :
           \A i \in 1..Len(stdin[name]) : \A j \in 1..(i - 1) :
               stdin[name][j] < stdin[name][i]
    /\ \A i \in 1..Len(rpc_log) :
           rpc_log[i].outcome = "result" => rpc_log[i].answered = rpc_log[i].id

\* C23: once a call has found a server dead (an empty read on its closed
\* pipe), the client holds no handle for the server and no cached tool
\* list of it.
C23_DeadServerReleased ==
    \A name \in RpcServers :
        (/\ children[name] = 0
         /\ \E i \in 1..Len(rpc_log) :
                /\ rpc_log[i].server = name
                /\ rpc_log[i].outcome = "empty_response")
        => /\ name \notin DOMAIN active_servers
           /\ name \notin server_tools

\* The accepted submissions, in the order they were handled.
Accepted ==
    LET IsAccepted(e) == e.accepted IN SelectSeq(submissions, IsAccepted)

\* C24: every accepted task gets an id that no earlier submission got, the
\* ids increase in submission order, no submission stores its record over
\* an existing one, and the table holds one record per accepted task.
C24_TaskIdsDistinctAndIncreasing ==
    /\ \A i \in 1..Len(submissions) :
           /\ submissions[i].fresh
           /\ \A j \in 1..(i - 1) : submissions[j].id < submissions[i].id
    /\ DOMAIN active_tasks = { Accepted[i].id : i \in 1..Len(Accepted) }
    /\ \A t \in DOMAIN active_tasks : active_tasks[t].id = t

\* A batch and a streaming submission were both accepted after an earlier
\* task had completed, and a rejected submission lies between accepted ones.
C24_Witness ==
    /\ Len(submissions) = MaxSubmissions
    /\ \E i \in 1..Len(Accepted) : \E j \in 1..Len(Accepted) :
           /\ i < j
           /\ Accepted[i].mode = "batch" /\ Accepted[j].mode = "stream"
           /\ active_tasks[Accepted[i].id].status = "completed"
           /\ active_tasks[Accepted[j].id].created_at
                  > active_tasks[Accepted[i].id].completed_at
    /\ \E k \in 1..Len(submissions) : ~submissions[k].accepted

\* C25: two plans that differ in the dependencies of their steps only give
\* the same step records, the same task steps log and the same outbound
\* requests.
C25_DependenciesIgnored == twin.plain_run = twin.other_run

\* Both executions have run a two-step plan to its end, one with
\* dependencies on every step and one with none, and have called an agent.
C25_Witness ==
    /\ twin.mode # "none"
    /\ Len(twin.plain) = 2 /\ twin.idx > Len(twin.plain)
    /\ \A k \in 1..Len(twin.other) : twin.other[k].dependencies # << >>
    /\ \A k \in 1..Len(twin.plain) : twin.plain[k].dependencies = << >>
    /\ twin.other_run.requests # << >>
    /\ Len(twin.other_run.execution_results) = 2

\* C26: whatever the text, parse_decision_response returns an object with
\* a reasoning and an approach that is agent_coordination, direct_response
\* or mcp_tools; for a text in which no strategy finds an object it is the
\* fallback object.
C26_DecisionAlwaysNormalised ==
    parser.pc = "returned" =>
        /\ parser.output.type = "dict"
        /\ "reasoning" \in DOMAIN parser.output.val
        /\ "approach" \in DOMAIN parser.output.val
        /\ parser.output.val.approach
               \in {"agent_coordination", "direct_response", "mcp_tools"}
        /\ parser.input.form \in {"empty", "whitespace", "text"} =>
               /\ parser.output.val.approach = "direct_response"
               /\ parser.output.val.reasoning
                      = "Could not parse as structured data"


\* The coroutines that have probed an endpoint of a discovery cycle they
\* have not finished.
MidCycle == { r \in Refreshers : refresh[r] >= 2 }

\* C27: discovery cycles never interleave: while one coroutine is between
\* the first and the last endpoint of its cycle, no other coroutine probes
\* an endpoint of a cycle of its own.
C27_CyclesNeverInterleave == Cardinality(MidCycle) <= 1


\* C29: a successful probe replaces everything the registry returns for the
\* agent id: the entry of get_agent_info and the list of
\* get_agent_capabilities both come from the probe that stored the entry, so
\* an agent whose entry was stored by the /health probe has no capabilities.
C29_EntryReplacedWholesale ==
    \A i \in 1..Len(discovered_agents) :
        LET e == discovered_agents[i]
        IN  get_agent_capabilities(e.agent_id)
                = SkillsIn(e.info.endpoint, e.info.discovery_method)


\* A discovery cycle has ended that no other cycle met: it entered
\* discover_agents when no coroutine was in it, and none has entered since.
CycleEndedAlone ==
    /\ cycles > 0 /\ alone
    /\ \A r \in Refreshers : refresh[r] = 0

\* The endpoints that answered in the cycle that has ended: their latest
\* probe stored last_entry.
AnsweredEndpoints ==
    { i \in 1..Len(DiscoveryEndpoints) :
          last_entry[i] # NoEntry /\ ~missed[i] }

AnsweredUnder(agent_id) ==
    { i \in AnsweredEndpoints : last_entry[i].agent_id = agent_id }

LastOf(S) == CHOOSE i \in S : \A j \in S : j <= i

\* C30: at the end of a discovery cycle, every agent id an endpoint answered
\* with in the cycle has a single registry entry, the one of the endpoint
\* that answered with it last in the configured order, whatever the number
\* of endpoints that answered with that id. The cycles taken are those that
\* had discover_agents to themselves.
C30_LastEndpointWins ==
    CycleEndedAlone =>
        \A i \in AnsweredEndpoints :
            LET agent_id == last_entry[i].agent_id
                last == LastOf(AnsweredUnder(agent_id))
            IN  /\ CountIf(discovered_agents,
                           LAMBDA e : e.agent_id = agent_id) = 1
                /\ RegistryEntriesOf(agent_id) = {last_entry[last]}
                /\ last_entry[last].info.endpoint = DiscoveryEndpoints[last]

\* A cycle has ended in which both endpoints answered with the same agent
\* id, to different probes, and the registry holds the entry of the second
\* endpoint under it.
C30_Witness ==
    /\ CycleEndedAlone
    /\ AnsweredEndpoints = {1, 2}
    /\ last_entry[1].agent_id = last_entry[2].agent_id
    /\ last_entry[1].info.discovery_method
           # last_entry[2].info.discovery_method
    /\ RegistryEntriesOf(last_entry[1].agent_id) = {last_entry[2]}


\* C28, first part: a GET /status that walks the registry while a refresh
\* stores entries never fails.
C28_WalkNeverFails == status_walk.pc # "failed"

\* C28, second part: what GET /status reports for an agent id is what the
\* registry gave for the id when the walk reached it or what it gives when
\* the agent is reported, never a mixture of the two.
C28_ReportNeverMixed ==
    \A k \in 1..Len(status_walk.report) :
        LET reported == status_walk.report[k]
        IN  "capabilities" \in DOMAIN reported =>
                [endpoint |-> reported.endpoint,
                 protocol |-> reported.protocol,
                 capabilities |-> reported.capabilities]
                    \in status_walk.views[k]

\* C28: the registry is protected against concurrent readers and the
\* refresh loop: a reader that walks it across suspension points while a
\* refresh inserts or replaces entries never fails, and reports for each
\* agent id either its pre-refresh or its post-refresh entry.
C28_ReadersAndRefreshAgree == C28_WalkNeverFails /\ C28_ReportNeverMixed


\* The methods of the probes before probe k, k included, in the order of
\* _discover_single_agent.
ProbesUpTo(k) == [j \in 1..k |-> DiscoveryMethods[j].method]

\* The probes of a finished _discover_single_agent whose answer satisfies
\* Test.
ProbesThat(Test(_)) ==
    { k \in 1..Len(DiscoveryMethods) : Test(probing.answers[k]) }

FirstOf(S) == CHOOSE k \in S : \A j \in S : k <= j

\* What C31 says of a finished _discover_single_agent when the probes that
\* decide are those whose answer satisfies Test: the probes were sent in the
\* fixed order up to the first that decides and no further, the registry
\* got the entry of that probe with its protocol tag, and with no probe
\* that decides all four were sent and the registry is as it was.
ProbeOrderHolds(Test(_)) ==
    probing.pc = "returned" =>
        LET deciding == ProbesThat(Test)
        IN  IF deciding = {}
            THEN /\ probing.sent = ProbesUpTo(Len(DiscoveryMethods))
                 /\ probing.registry = probing.before
            ELSE LET k == FirstOf(deciding)
                 IN  /\ probing.sent = ProbesUpTo(k)
                     /\ \E i \in 1..Len(probing.registry) :
                            LET info == probing.registry[i].info
                            IN  /\ info.endpoint = DiscoveryEndpoints[1]
                                /\ info.discovery_method
                                       = DiscoveryMethods[k].method
                                /\ info.protocol = DiscoveryMethods[k].protocol
                                /\ DiscoveryMethods[k].protocol =
                                       CASE k \in {1, 2} -> "a2a"
                                         [] k = 3 -> "legacy"
                                         [] k = 4 -> "unknown"

\* C31 as stated: the first probe that answers 200 with JSON alone decides
\* the entry, no probe is sent after it, a failing or non-JSON probe falls
\* through, and with four failures the registry is left unchanged.
C31_FirstJsonAnswerDecides ==
    ProbeOrderHolds(LAMBDA a : a.kind \in {"array", "object"})

\* C31, amended: the probe that decides is the first that answers 200 with
\* a JSON object whose name field is a string or is missing; a 200 with any
\* other JSON value falls through to the next probe like a failure.
C31_FirstNamedObjectDecides ==
    ProbeOrderHolds(LAMBDA a : a.kind = "object" /\ a.name # "null")

\* The first probe failed, the second answered a JSON array, the third a
\* JSON object with a name: three probes were sent and the entry is legacy.
C31_Witness ==
    /\ probing.pc = "returned"
    /\ probing.answers[1].kind = "failed"
    /\ probing.answers[2].kind = "array"
    /\ probing.answers[3] = [kind |-> "object", name |-> "Researcher"]
    /\ Len(probing.sent) = 3
    /\ \E i \in 1..Len(probing.registry) :
           probing.registry[i].info.protocol = "legacy"


\* The positions of mcp_log that hold an initialize request written to one
\* child of one server.
InitializesOf(server_name, child) ==
    { k \in 1..Len(mcp_log) :
          /\ mcp_log[k].method = "initialize"
          /\ mcp_log[k].server = server_name
          /\ mcp_log[k].child = child }

\* C32, first part: each child process is sent initialize exactly once
\* before anything else is asked of it.
C32_InitializeOnce ==
    \A k \in 1..Len(mcp_log) :
        Cardinality(InitializesOf(mcp_log[k].server, mcp_log[k].child)) = 1

\* C32, second part: tools/list is sent only after initialize succeeded,
\* that is after the notifications/initialized that follows the initialize
\* response of the same handshake.
C32_ListAfterInitialized ==
    \A k \in 1..Len(mcp_log) :
        mcp_log[k].method = "tools/list" =>
            /\ k > 1
            /\ mcp_log[k - 1].method = "notifications/initialized"
            /\ mcp_log[k - 1].caller = mcp_log[k].caller
            /\ mcp_log[k - 1].child = mcp_log[k].child

\* C32: the MCP handshake gates discovery: initialize exactly once per
\* child, notifications/initialized only after the initialize response,
\* tools/list only after initialize succeeded and never to a server whose
\* initialize failed.
C32_HandshakeGatesDiscovery ==
    C32_InitializeOnce /\ C32_ListAfterInitialized


\* C33: a cached tool list exists only for a server that has a process
\* handle: the keys of the tool cache are among the active servers, under
\* every interleaving of discover_tools, call_tool and close_server.
C33_CacheOnlyForActiveServers == server_tools \subseteq DOMAIN active_servers

\* C39, first part: close_server never raises.
C39_CloseNeverRaises == \A k \in Closers : closing[k].pc # "raised"

\* C39, second part: when close_server(S) returns, S has neither a process
\* handle nor a cached tool list, and the handles and caches of the other
\* servers are as they were.
C39_ReturnLeavesNothing ==
    \A k \in Closers :
        (closing[k].pc # "returned" /\ closing'[k].pc = "returned") =>
            LET name == closing'[k].server
            IN  /\ name \notin DOMAIN active_servers'
                /\ name \notin server_tools'
                /\ \A other \in RpcServers \ {name} :
                       /\ other \in DOMAIN active_servers
                              <=> other \in DOMAIN active_servers'
                       /\ other \in server_tools <=> other \in server_tools'

\* C39: close_server(S) never raises and, once it has returned, S has
\* neither a process handle nor a cached tool list, also when S was never
\* started and when two close_server(S) calls overlap; the other servers
\* are left unchanged.
C39_CloseServerAlwaysCleans ==
    []C39_CloseNeverRaises /\ [][C39_ReturnLeavesNothing]_vars


\* C34: the verification probe is sent on the first LLM call only: every
\* completion or streaming call after the first skips it, also when the
\* first probe failed.
C34_ProbeOnFirstCallOnly ==
    \A k \in 2..Len(envoy_log) : ~envoy_log[k].first


\* C40, the size: the conversation history holds at most max_history
\* messages.
C40_AtMostTwentyMessages == Len(conversation_history) <= max_history

\* C40, the shape: the history is a sequence of user/assistant pairs.
C40_AlternatingPairs ==
    /\ Len(conversation_history) % 2 = 0
    /\ \A k \in 1..Len(conversation_history) :
           conversation_history[k].role
               = IF k % 2 = 1 THEN "user" ELSE "assistant"

\* C40: after any sequence of send_message and stream_message calls with
\* history enabled, the history holds at most 20 messages, in alternating
\* user/assistant pairs.
C40_HistoryBounded == C40_AtMostTwentyMessages /\ C40_AlternatingPairs


\* The record GET /task/{id} returns has a terminal status and completed_at.
Terminal(t) ==
    /\ t \in DOMAIN active_tasks
    /\ active_tasks[t].status \in {"completed", "failed"}
    /\ "completed_at" \in DOMAIN active_tasks[t]

\* C35: every accepted task eventually has a terminal status with
\* completed_at set, on the batch and the streaming path alike and whether
\* the plan executed, the LLM client was missing or the fallback ran, and
\* that status never changes afterwards.
C35_EveryTaskEndsTerminal ==
    /\ \A t \in TaskIds : [](t \in DOMAIN active_tasks => <>Terminal(t))
    /\ [][\A t \in TaskIds :
              Terminal(t) =>
                  /\ t \in DOMAIN active_tasks'
                  /\ active_tasks'[t].status = active_tasks[t].status]_vars


\* What a record of execution_results says of its step: the step number,
\* the action, the target, and the result or else the error.
Outcome(record) ==
    [step |-> record.step, action |-> record.action, target |-> record.target,
     outcome |-> IF "result" \in DOMAIN record
                 THEN [result |-> record.result]
                 ELSE [error |-> record.error]]

\* C36: the batch executor and the streaming executor, run on the same plan
\* against the same agents and servers, produce the same sequence of
\* (step, action, target, result or error) in their execution results and
\* append the same step records to the task's steps log.
C36_ExecutorsAgreeOnRecords ==
    /\ Len(pair.batch.execution_results) = Len(pair.stream.execution_results)
    /\ \A k \in 1..Len(pair.batch.execution_results) :
           Outcome(pair.batch.execution_results[k])
               = Outcome(pair.stream.execution_results[k])
    /\ pair.batch.steps = pair.stream.steps


\* The entries task t's own handler has written so far: the analysis entry
\* and one entry per step record that carries a result.
OwnEntries(t) ==
    IF t \notin DOMAIN proc THEN {} ELSE
    { LlmAnalysisEntry(proc[t].llm_decision) }
    \cup { TaskStepEntry(r.step, r.action, r.target, r.result) :
             r \in { proc[t].execution_results[k] :
                       k \in { j \in 1..Len(proc[t].execution_results) :
                                 "result" \in DOMAIN
                                     proc[t].execution_results[j] } } }

\* Every record is filed under its own id, and its steps log holds entries
\* of its own handler only.
C37_RecordsHoldOwnSteps ==
    \A t \in DOMAIN active_tasks :
        /\ active_tasks[t].id = t
        /\ \A k \in 1..Len(active_tasks[t].steps) :
               active_tasks[t].steps[k] \in OwnEntries(t)

\* A step changes the record of the task whose handler took it, if any, and
\* removes no record.
C37_OnlyOwnHandlerWrites ==
    \A t \in DOMAIN active_tasks :
        /\ t \in DOMAIN active_tasks'
        /\ active_tasks'[t] # active_tasks[t] =>
               t \in DOMAIN proc /\ proc'[t] # proc[t]

\* C37: with several tasks in flight, under any interleaving, every step
\* record and status change of a task is written to that task's record
\* only, no other task's steps, status, completed_at or result is modified,
\* and no record is ever removed from the table of active tasks.
C37_TasksAreIsolated ==
    []C37_RecordsHoldOwnSteps /\ [][C37_OnlyOwnHandlerWrites]_vars

\* Both tasks have executed a step of different plans, one of them is
\* completed and the other is still executing, and a third task has been
\* accepted meanwhile.
C37_Witness ==
    /\ DOMAIN active_tasks = 0..2
    /\ proc[0].execution_plan # proc[1].execution_plan
    /\ \A t \in FlightIds :
           \E k \in 1..Len(active_tasks[t].steps) :
               "action" \in DOMAIN active_tasks[t].steps[k]
    /\ \E t \in FlightIds : \E u \in FlightIds :
           /\ active_tasks[t].status = "completed"
           /\ active_tasks[u].status = "processing"
           /\ proc[u].pc = "execute"


\* The counts of an execution_completed message add up: the successful and
\* the failed steps make the total, which is the number of results.
CountsAddUp(e) ==
    /\ e.successful_steps + e.failed_steps = e.total_steps
    /\ e.total_steps = Len(e.results)

\* C38: in every execution_completed event successful_steps + failed_steps
\* = total_steps = the number of entries in results, and these counts agree
\* with the successful_steps and failed_steps of the task_completed event
\* that follows it.
C38_CompletionCountsAgree ==
    \A t \in TaskIds : \A k \in 1..Len(events[t]) :
        LET e == events[t][k] IN
        ("event" \in DOMAIN e /\ e.event = "execution_completed") =>
            /\ CountsAddUp(e)
            /\ \A j \in (k + 1)..Len(events[t]) :
                   LET c == events[t][j] IN
                   ("event" \in DOMAIN c /\ c.event = "task_completed") =>
                       /\ c.successful_steps = e.successful_steps
                       /\ c.failed_steps = e.failed_steps

====
